---- MODULE Spec2Model ----
(***************************************************************************)
(* WireChat server: the Hub event loop (internal/core/hub.go), the rooms   *)
(* (internal/core/room.go), the per-connection reader with its rate        *)
(* limiter and join-time access control (internal/transport/http), the     *)
(* message store and the calls service.                                    *)
(***************************************************************************)
EXTENDS Integers, Sequences, FiniteSets, TLC

\* ------------------------------------------------------------------ bounds
\* commands the callers push onto the clients' Commands channels, in total
MaxCmds == 2
\* frames one connection reads
MaxFrames == 3
\* values the wall clock takes
MaxClock == 2
\* ticks of one limiter's reset ticker
MaxResets == 1
\* calls created
MaxCalls == 1
\* calls of the calls service started in all
MaxCallOps == 4
MaxMessages == 4
MaxLimit == 3
\* commands pushed in all by the sessions that send messages
MaxMsgCmds == 4

\* ------------------------------------------------- channel capacities
\* make(chan *Event, 8), scaled
EventsCap == 1
\* make(chan *Command, 8), scaled
InboxCap == 1
\* make(chan clientCommand, 64), scaled
CommandsCap == 1
\* make(chan *Client, 16) for register and for unregister, scaled
RegisterCap == 1
\* ListMessages(ctx, dbRoom.ID, 20, nil) in joinRoom
HistoryLimit == 20

\* ------------------------------------------------------------ universes
Sessions == {"s1", "s2"}
UserIDs == {0, 1, 2}
NoClient == "none"
\* persisted rooms: name -> [id, type]; "lobby" has no persisted counterpart
DbRoomNames == {"general", "secret", "dm", "odd"}
DbRoom(name) ==
  CASE name = "general" -> [id |-> 1, type |-> "public"]
    [] name = "secret"  -> [id |-> 2, type |-> "private"]
    [] name = "dm"      -> [id |-> 3, type |-> "direct"]
    [] name = "odd"     -> [id |-> 4, type |-> "channel"]
\* persisted users: id -> username and guest flag of the account
UserName(uid) == IF uid = 1 THEN "alice" ELSE IF uid = 2 THEN "bob" ELSE "unknown"

Min(a, b) == IF a <= b THEN a ELSE b
SeqMax(q) == IF q = <<>> THEN 0 ELSE q[Len(q)].id

VARIABLES
  \* coreHub
  clients, rooms, userClients, register, unregister, commands,
  hubTodo, hubState, ctxDone,
  \* core.Client
  cUserID, cName, cIsGuest, cRooms, cEvents, cClosed, cCommands,
  \* consumeCommands goroutine of each client
  fwd,
  \* connection / caller side
  conn, pushed,
  \* config.Config, and readLoop's locals and rate limiters per connection
  cfg, authenticated, joinLimiter, msgLimiter, pending, last, frames, resets,
  \* store
  dbMessages, dbMembers,
  \* the rooms table, the POST /api/rooms/direct request each HTTP goroutine
  \* is in, and (history) the replies these requests were given
  dbRooms, roomReq, directReplies,
  \* the last ListMessages call made over REST: its arguments and its result
  listed,
  \* wall clock
  clock,
  \* the calls and call_participants tables, the call of Service each thread
  \* is in, the calls started
  dbCalls, dbParticipants, svc, callOps,
  \* history: the calls a Service.EndCall has ended and returned nil for
  endedCalls

hubVars == <<clients, rooms, userClients, register, unregister, commands,
             hubTodo, hubState, ctxDone>>
clientVars == <<cUserID, cName, cIsGuest, cRooms, cEvents, cClosed, cCommands>>
roomVars == <<dbRooms, roomReq, directReplies, listed>>
callVars == <<dbCalls, dbParticipants, svc, callOps, endedCalls>>
readerVars == <<cfg, authenticated, joinLimiter, msgLimiter, pending, last, frames, resets>>
vars == <<hubVars, clientVars, fwd, conn, pushed, readerVars, dbMessages, dbMembers, roomVars, clock, callVars>>

\* ---------------------------------------------------------------- events
Event(kind, room, user, code, msg, hist) ==
  [kind |-> kind, room |-> room, user |-> user, code |-> code, msg |-> msg, hist |-> hist]
NoMsg == [id |-> 0, from |-> "", text |-> "", createdAt |-> 0]
ErrorEvent(room, code) == Event("error", room, "", code, NoMsg, <<>>)

\* ----------------------------------------------------------------- store
Reverse(q) == [i \in 1..Len(q) |-> q[Len(q) + 1 - i]]
Take(q, n) == IF Len(q) <= n THEN q ELSE SubSeq(q, 1, n)

\* ListMessages with ORDER BY id ASC: the oldest rows instead of the newest
ListMessagesOldest(msgs, roomID, limit, beforeID) ==
  LET match(m) == m.room = roomID /\ (beforeID = 0 \/ m.id < beforeID)
  IN  Take(SelectSeq(msgs, match), limit)

\* SELECT ... WHERE room_id = ? [AND id < ?] ORDER BY id DESC LIMIT ?, then reversed
ListMessages(msgs, roomID, limit, beforeID) ==
  LET match(m) == m.room = roomID /\ (beforeID = 0 \/ m.id < beforeID)
      desc == Reverse(SelectSeq(msgs, match))
  IN  Reverse(Take(desc, limit))

\* SaveMessage handing out the same id to every row
SaveMessageSameId(msgs, roomID, userID, createdAt) ==
  Append(msgs, [id |-> 1, room |-> roomID, user |-> userID, createdAt |-> createdAt])

\* INSERT INTO messages; msg.ID = LastInsertId (INTEGER PRIMARY KEY AUTOINCREMENT)
SaveMessage(msgs, roomID, userID, createdAt) ==
  Append(msgs, [id |-> SeqMax(msgs) + 1, room |-> roomID, user |-> userID,
                createdAt |-> createdAt])

\* ------------------------------------------------------------------ rooms
\* Room.AddClient: true if newly added
AddClient(members, c) == members \cup {c}
\* Room.RemoveClient: true if removed
RemoveClient(members, c) == members \ {c}
\* Room.Empty
Empty(members) == members = {}

\* Room.Broadcast: non-blocking send to every member; a send on a closed
\* channel panics
Broadcast(M, members, ev) ==
  IF \E c \in members : M.cClosed[c]
  THEN [M EXCEPT !.panic = TRUE]
  ELSE [M EXCEPT !.cEvents = [c \in Sessions |->
          IF c \in members /\ Len(M.cEvents[c]) < EventsCap
          THEN Append(M.cEvents[c], ev) ELSE M.cEvents[c]]]

\* coreHub.broadcastToRoom
broadcastToRoom(M, roomName, ev) ==
  IF roomName \notin DOMAIN M.rooms THEN M
  ELSE Broadcast(M, M.rooms[roomName], ev)

\* coreHub.ensureRoom
ensureRoom(M, name) ==
  IF name \in DOMAIN M.rooms THEN M
  ELSE [M EXCEPT !.rooms = (name :> {}) @@ M.rooms]

\* coreHub.sendToUser: non-blocking, through the userClients index
sendToUser(M, userID, ev) ==
  IF userID \notin DOMAIN M.userClients THEN M
  ELSE LET c == M.userClients[userID] IN
       IF M.cClosed[c] THEN [M EXCEPT !.panic = TRUE]
       ELSE IF Len(M.cEvents[c]) < EventsCap
            THEN [M EXCEPT !.cEvents[c] = Append(@, ev)]
            ELSE M

\* the blocking channel send  client.Events <- ev  as a pending step
Send(c, ev) == [op |-> "send", to |-> c, ev |-> ev]
Step(m, ops) == [m |-> m, ops |-> ops]

\* joinRoom announcing a client that is already in the room once more
joinRoomAnnouncesAgain(M, c, roomName, storeOk) ==
  IF roomName = ""
  THEN Step(M, <<Send(c, ErrorEvent(roomName, "bad_request"))>>)
  ELSE
    LET M1 == ensureRoom(M, roomName)
        M2 == [M1 EXCEPT !.rooms[roomName] = AddClient(@, c),
                         !.cRooms[c] = @ \cup {roomName}]
        M3 == broadcastToRoom(M2, roomName,
                  Event("user_joined", roomName, cName[c], "", NoMsg, <<>>))
        messages == IF storeOk /\ roomName \in DbRoomNames
                    THEN ListMessages(M.dbMessages, DbRoom(roomName).id, HistoryLimit, 0)
                    ELSE <<>>
        ids == [i \in 1..Len(messages) |-> messages[i].id]
    IN  IF c \in M1.rooms[roomName]
        THEN Step(M3, <<Send(c, ErrorEvent(roomName, "already_joined"))>>)
        ELSE IF Len(messages) > 0
        THEN Step(M3, <<Send(c, Event("history", roomName, "", "", NoMsg, ids))>>)
        ELSE Step(M3, <<>>)

\* joinRoom broadcasting user_joined before the client is added to the room
joinRoomBroadcastFirst(M, c, roomName, storeOk) ==
  IF roomName = ""
  THEN Step(M, <<Send(c, ErrorEvent(roomName, "bad_request"))>>)
  ELSE
    LET M1 == ensureRoom(M, roomName) IN
    IF c \in M1.rooms[roomName]
    THEN Step(M1, <<Send(c, ErrorEvent(roomName, "already_joined"))>>)
    ELSE
      LET M2 == broadcastToRoom(M1, roomName,
                    Event("user_joined", roomName, cName[c], "", NoMsg, <<>>))
          M3 == [M2 EXCEPT !.rooms[roomName] = AddClient(@, c),
                           !.cRooms[c] = @ \cup {roomName}]
          messages == IF storeOk /\ roomName \in DbRoomNames
                      THEN ListMessages(M.dbMessages, DbRoom(roomName).id, HistoryLimit, 0)
                      ELSE <<>>
          ids == [i \in 1..Len(messages) |-> messages[i].id]
      IN  IF Len(messages) > 0
          THEN Step(M3, <<Send(c, Event("history", roomName, "", "", NoMsg, ids))>>)
          ELSE Step(M3, <<>>)

\* coreHub.joinRoom
joinRoom(M, c, roomName, storeOk) ==
  IF roomName = ""
  THEN Step(M, <<Send(c, ErrorEvent(roomName, "bad_request"))>>)
  ELSE
    LET M1 == ensureRoom(M, roomName) IN
    IF c \in M1.rooms[roomName]
    THEN Step(M1, <<Send(c, ErrorEvent(roomName, "already_joined"))>>)
    ELSE
      LET M2 == [M1 EXCEPT !.rooms[roomName] = AddClient(@, c),
                           !.cRooms[c] = @ \cup {roomName}]
          M3 == broadcastToRoom(M2, roomName,
                    Event("user_joined", roomName, cName[c], "", NoMsg, <<>>))
          messages == IF storeOk /\ roomName \in DbRoomNames
                      THEN ListMessages(M.dbMessages, DbRoom(roomName).id, HistoryLimit, 0)
                      ELSE <<>>
          ids == [i \in 1..Len(messages) |-> messages[i].id]
      IN  IF Len(messages) > 0
          THEN Step(M3, <<Send(c, Event("history", roomName, "", "", NoMsg, ids))>>)
          ELSE Step(M3, <<>>)

\* leaveRoom without  delete(client.Rooms, roomName)
leaveRoomKeepsJoined(M, c, roomName) ==
  IF roomName \notin DOMAIN M.rooms
  THEN Step(M, <<Send(c, ErrorEvent(roomName, "room_not_found"))>>)
  ELSE IF c \notin M.rooms[roomName]
  THEN Step(M, <<Send(c, ErrorEvent(roomName, "not_in_room"))>>)
  ELSE
    LET M1 == [M EXCEPT !.rooms[roomName] = RemoveClient(@, c)]
        M2 == broadcastToRoom(M1, roomName,
                  Event("user_left", roomName, cName[c], "", NoMsg, <<>>))
    IN  IF Empty(M2.rooms[roomName])
        THEN Step([M2 EXCEPT !.rooms = [r \in (DOMAIN M2.rooms) \ {roomName} |-> M2.rooms[r]]], <<>>)
        ELSE Step(M2, <<>>)

\* leaveRoom without  if room.Empty() { delete(h.rooms, roomName) }
leaveRoomKeepsEmpty(M, c, roomName) ==
  IF roomName \notin DOMAIN M.rooms
  THEN Step(M, <<Send(c, ErrorEvent(roomName, "room_not_found"))>>)
  ELSE IF c \notin M.rooms[roomName]
  THEN Step(M, <<Send(c, ErrorEvent(roomName, "not_in_room"))>>)
  ELSE
    LET M1 == [M EXCEPT !.rooms[roomName] = RemoveClient(@, c),
                        !.cRooms[c] = @ \ {roomName}]
    IN  Step(broadcastToRoom(M1, roomName,
                  Event("user_left", roomName, cName[c], "", NoMsg, <<>>)), <<>>)

\* leaveRoom telling the room, not the client, that the client is not in it
leaveRoomErrorToRoom(M, c, roomName) ==
  IF roomName \notin DOMAIN M.rooms
  THEN Step(M, <<Send(c, ErrorEvent(roomName, "room_not_found"))>>)
  ELSE IF c \notin M.rooms[roomName]
  THEN Step(Broadcast(M, M.rooms[roomName], ErrorEvent(roomName, "not_in_room")), <<>>)
  ELSE
    LET M1 == [M EXCEPT !.rooms[roomName] = RemoveClient(@, c),
                        !.cRooms[c] = @ \ {roomName}]
        M2 == broadcastToRoom(M1, roomName,
                  Event("user_left", roomName, cName[c], "", NoMsg, <<>>))
    IN  IF Empty(M2.rooms[roomName])
        THEN Step([M2 EXCEPT !.rooms = [r \in (DOMAIN M2.rooms) \ {roomName} |-> M2.rooms[r]]], <<>>)
        ELSE Step(M2, <<>>)

\* leaveRoom answering not_in_room whether or not the room exists
leaveRoomOneError(M, c, roomName) ==
  IF roomName \notin DOMAIN M.rooms \/ c \notin M.rooms[roomName]
  THEN Step(M, <<Send(c, ErrorEvent(roomName, "not_in_room"))>>)
  ELSE
    LET M1 == [M EXCEPT !.rooms[roomName] = RemoveClient(@, c),
                        !.cRooms[c] = @ \ {roomName}]
        M2 == broadcastToRoom(M1, roomName,
                  Event("user_left", roomName, cName[c], "", NoMsg, <<>>))
    IN  IF Empty(M2.rooms[roomName])
        THEN Step([M2 EXCEPT !.rooms = [r \in (DOMAIN M2.rooms) \ {roomName} |-> M2.rooms[r]]], <<>>)
        ELSE Step(M2, <<>>)

\* coreHub.leaveRoom
leaveRoom(M, c, roomName) ==
  IF roomName \notin DOMAIN M.rooms
  THEN Step(M, <<Send(c, ErrorEvent(roomName, "room_not_found"))>>)
  ELSE IF c \notin M.rooms[roomName]
  THEN Step(M, <<Send(c, ErrorEvent(roomName, "not_in_room"))>>)
  ELSE
    LET M1 == [M EXCEPT !.rooms[roomName] = RemoveClient(@, c),
                        !.cRooms[c] = @ \ {roomName}]
        M2 == broadcastToRoom(M1, roomName,
                  Event("user_left", roomName, cName[c], "", NoMsg, <<>>))
    IN  IF Empty(M2.rooms[roomName])
        THEN Step([M2 EXCEPT !.rooms = [r \in (DOMAIN M2.rooms) \ {roomName} |-> M2.rooms[r]]], <<>>)
        ELSE Step(M2, <<>>)

\* sendRoomMessage broadcasting to the other members only
sendRoomMessageNotToSender(M, c, cmd, storeOk, now) ==
  IF cmd.room = ""
  THEN Step(M, <<Send(c, ErrorEvent(cmd.room, "bad_request"))>>)
  ELSE IF cmd.room \notin M.cRooms[c]
  THEN Step(M, <<Send(c, ErrorEvent(cmd.room, "not_in_room"))>>)
  ELSE
    LET createdAt == IF cmd.msg.createdAt = 0 THEN now ELSE cmd.msg.createdAt
        from == IF cmd.msg.from = "" THEN cName[c] ELSE cmd.msg.from
        persist == ~cIsGuest[c] /\ cUserID[c] > 0 /\ storeOk /\ cmd.room \in DbRoomNames
        msgs1 == IF persist
                 THEN SaveMessage(M.dbMessages, DbRoom(cmd.room).id, cUserID[c], createdAt)
                 ELSE M.dbMessages
        id == IF persist THEN msgs1[Len(msgs1)].id ELSE 0
        M1 == [M EXCEPT !.dbMessages = msgs1]
    IN  Step(Broadcast(M1, M1.rooms[cmd.room] \ {c},
               Event("message", cmd.room, "", "",
                     [id |-> id, from |-> from, text |-> cmd.msg.text,
                      createdAt |-> createdAt], <<>>)),
             <<>>)

\* sendRoomMessage without the test of client.Rooms
sendRoomMessageUnchecked(M, c, cmd, storeOk, now) ==
  IF cmd.room = ""
  THEN Step(M, <<Send(c, ErrorEvent(cmd.room, "bad_request"))>>)
  ELSE
    LET createdAt == IF cmd.msg.createdAt = 0 THEN now ELSE cmd.msg.createdAt
        from == IF cmd.msg.from = "" THEN cName[c] ELSE cmd.msg.from
        persist == ~cIsGuest[c] /\ cUserID[c] > 0 /\ storeOk /\ cmd.room \in DbRoomNames
        msgs1 == IF persist
                 THEN SaveMessage(M.dbMessages, DbRoom(cmd.room).id, cUserID[c], createdAt)
                 ELSE M.dbMessages
        id == IF persist THEN msgs1[Len(msgs1)].id ELSE 0
        M1 == [M EXCEPT !.dbMessages = msgs1]
    IN  Step(broadcastToRoom(M1, cmd.room,
               Event("message", cmd.room, "", "",
                     [id |-> id, from |-> from, text |-> cmd.msg.text,
                      createdAt |-> createdAt], <<>>)),
             <<>>)

\* coreHub.sendRoomMessage
sendRoomMessage(M, c, cmd, storeOk, now) ==
  IF cmd.room = ""
  THEN Step(M, <<Send(c, ErrorEvent(cmd.room, "bad_request"))>>)
  ELSE IF cmd.room \notin M.cRooms[c]
  THEN Step(M, <<Send(c, ErrorEvent(cmd.room, "not_in_room"))>>)
  ELSE
    LET createdAt == IF cmd.msg.createdAt = 0 THEN now ELSE cmd.msg.createdAt
        from == IF cmd.msg.from = "" THEN cName[c] ELSE cmd.msg.from
        persist == ~cIsGuest[c] /\ cUserID[c] > 0 /\ storeOk /\ cmd.room \in DbRoomNames
        msgs1 == IF persist
                 THEN SaveMessage(M.dbMessages, DbRoom(cmd.room).id, cUserID[c], createdAt)
                 ELSE M.dbMessages
        id == IF persist THEN msgs1[Len(msgs1)].id ELSE 0
        M1 == [M EXCEPT !.dbMessages = msgs1]
    IN  Step(broadcastToRoom(M1, cmd.room,
               Event("message", cmd.room, "", "",
                     [id |-> id, from |-> from, text |-> cmd.msg.text,
                      createdAt |-> createdAt], <<>>)),
             <<>>)

\* coreHub.removeClient, after the loop over client.Rooms: drop the client,
\* drop the userClients entry of its user id, close its Events channel
removeFinish(M, c) ==
  LET M1 == [M EXCEPT !.clients = @ \ {c},
                      !.userClients =
                         IF cUserID[c] > 0
                         THEN [u \in (DOMAIN M.userClients) \ {cUserID[c]} |-> M.userClients[u]]
                         ELSE @]
  IN  IF M1.cClosed[c] THEN [M1 EXCEPT !.panic = TRUE]
      ELSE [M1 EXCEPT !.cClosed[c] = TRUE]

\* removeClient without the test of h.clients
removeClientUnchecked(M, c, order) ==
  Step(M, [i \in 1..Len(order) |-> [op |-> "leave", c |-> c, room |-> order[i]]]
          \o <<[op |-> "finish", c |-> c]>>)

\* coreHub.removeClient: order is the order in which range client.Rooms
\* yields the room names
removeClient(M, c, order) ==
  IF c \notin M.clients THEN Step(M, <<>>)
  ELSE Step(M, [i \in 1..Len(order) |-> [op |-> "leave", c |-> c, room |-> order[i]]]
               \o <<[op |-> "finish", c |-> c]>>)

\* ------------------------------------------------- the call handlers
\* the users table, and the rooms table by id
CallUsers == {1, 2}
RoomIDs == {DbRoom(n).id : n \in DbRoomNames}
\* Event{Kind, Call: &CallEvent{CallID, CallType, FromUserID, ToUserID, RoomID}}
CallEvent(kind, callID, callType, from, to, roomID) ==
  [kind |-> kind, room |-> "", user |-> "", code |-> "", msg |-> NoMsg, hist |-> <<>>,
   call |-> [callID |-> callID, callType |-> callType, fromUserID |-> from,
             toUserID |-> to, roomID |-> roomID]]
\* coreHub.sendCallError: a blocking send of an error without a room
sendCallError(c, code) == Send(c, ErrorEvent("", code))
\* h.sendToUser(userID, ev) as a step of a handler
ToUser(userID, ev) == [op |-> "touser", user |-> userID, ev |-> ev]
\* uuid.New().String()
NewCallID(calls) == CHOOSE id \in {"k" \o ToString(i) : i \in 1..(Cardinality(DOMAIN calls) + 1)} :
                      id \notin DOMAIN calls
\* SQLiteStore.ListMembers: the user ids of the rows above a given id, in order
RECURSIVE ListMembers(_, _)
ListMembers(roomID, above) ==
  LET us == {u \in CallUsers : u > above /\ <<u, roomID>> \in dbMembers} IN
  IF us = {} THEN <<>>
  ELSE LET u == CHOOSE x \in us : \A y \in us : x <= y
       IN  <<u>> \o ListMembers(roomID, u)

\* coreHub.handleCallInvite. cfg.calls: h.callService is set; storeOk: the
\* store, the call settings and the engine let the call be created
handleCallInvite(M, c, call, storeOk) ==
  IF ~cfg.calls
  THEN Step(M, <<sendCallError(c, "calls_disabled")>>)
  ELSE IF cIsGuest[c] \/ cUserID[c] = 0
  THEN Step(M, <<sendCallError(c, "unauthorized")>>)
  ELSE
    LET id == NewCallID(M.dbCalls)
        row == [status |-> "ringing", endedAt |-> 0, initiator |-> cUserID[c],
                type |-> call.callType, roomID |-> call.roomID]
    IN
    IF call.callType = "direct"
    THEN \* Service.CreateDirectCall
         IF cUserID[c] = call.toUserID \/ call.toUserID \notin CallUsers \/ ~storeOk
         THEN Step(M, <<sendCallError(c, "call_error")>>)
         ELSE Step([M EXCEPT !.dbCalls = (id :> row) @@ @,
                             !.dbParticipants = @ \cup
                                {[call |-> id, user |-> u, left |-> FALSE] :
                                   u \in {cUserID[c], call.toUserID}}],
                   <<Send(c, CallEvent("call.ringing", id, "", 0, call.toUserID, 0)),
                     ToUser(call.toUserID,
                            CallEvent("call.incoming", id, "direct", cUserID[c], 0, 0))>>)
    ELSE IF call.callType = "room"
    THEN \* Service.CreateRoomCall
         IF call.roomID \notin RoomIDs \/ <<cUserID[c], call.roomID>> \notin dbMembers
            \/ ~storeOk
         THEN Step(M, <<sendCallError(c, "call_error")>>)
         ELSE LET members == ListMembers(call.roomID, 0)
                  ev == CallEvent("call.incoming", id, "room", cUserID[c], 0, call.roomID)
              IN  Step([M EXCEPT !.dbCalls = (id :> row) @@ @,
                                 !.dbParticipants = @ \cup
                                    {[call |-> id, user |-> cUserID[c], left |-> FALSE]}],
                       [i \in 1..Len(members) |->
                          IF members[i] # cUserID[c] THEN ToUser(members[i], ev)
                          ELSE [op |-> "skip"]])
    ELSE Step(M, <<>>)

\* Service.GetJoinInfo run by the Hub: the tables after it, and whether it
\* returned join info. A member of the room of a room call becomes a
\* participant; a call read as ringing is written back as active
serviceGetJoinInfo(M, id, user, storeOk) ==
  IF id \notin DOMAIN M.dbCalls \/ ~storeOk THEN [m |-> M, ok |-> FALSE]
  ELSE
    LET row == M.dbCalls[id]
        part == \E p \in M.dbParticipants : p.call = id /\ p.user = user
        member == row.type = "room" /\ <<user, row.roomID>> \in dbMembers
    IN  IF row.status \in {"ended", "failed"} \/ (~part /\ ~member)
        THEN [m |-> M, ok |-> FALSE]
        ELSE [m |-> [M EXCEPT !.dbParticipants =
                                 IF part THEN @
                                 ELSE @ \cup {[call |-> id, user |-> user, left |-> FALSE]},
                              !.dbCalls[id].status =
                                 IF @ = "ringing" THEN "active" ELSE @],
              ok |-> TRUE]

\* coreHub.handleCallAccept: join info to the acceptor, call.accepted and
\* join info to the initiator
handleCallAccept(M, c, call, storeOk) ==
  IF ~cfg.calls
  THEN Step(M, <<sendCallError(c, "calls_disabled")>>)
  ELSE IF cIsGuest[c] \/ cUserID[c] = 0
  THEN Step(M, <<sendCallError(c, "unauthorized")>>)
  ELSE
    LET id == call.callID
        info == serviceGetJoinInfo(M, id, cUserID[c], storeOk)
    IN  IF ~info.ok
        THEN Step(M, <<sendCallError(c, "call_error")>>)
        ELSE LET initiator == info.m.dbCalls[id].initiator IN
             Step(info.m,
                  <<Send(c, CallEvent("call.join-info", id, "", 0, 0, 0)),
                    ToUser(initiator, CallEvent("call.accepted", id, "", cUserID[c], 0, 0)),
                    ToUser(initiator, CallEvent("call.join-info", id, "", 0, 0, 0))>>)

\* coreHub.handleCallReject: Service.GetCall, Service.RejectCall, then
\* call.rejected and call.ended to the initiator
handleCallReject(M, c, call, storeOk, now) ==
  IF ~cfg.calls
  THEN Step(M, <<sendCallError(c, "calls_disabled")>>)
  ELSE IF cIsGuest[c] \/ cUserID[c] = 0
  THEN Step(M, <<sendCallError(c, "unauthorized")>>)
  ELSE IF call.callID \notin DOMAIN M.dbCalls \/ ~storeOk
  THEN Step(M, <<sendCallError(c, "call_not_found")>>)
  ELSE
    LET id == call.callID
        row == M.dbCalls[id]
        part == \E p \in M.dbParticipants : p.call = id /\ p.user = cUserID[c]
    IN  IF row.status # "ringing" \/ ~part
        THEN Step(M, <<sendCallError(c, "call_error")>>)
        ELSE Step([M EXCEPT !.dbCalls[id] = [@ EXCEPT !.status = "ended", !.endedAt = now],
                            !.dbParticipants =
                               {IF p.call = id /\ p.user = cUserID[c]
                                THEN [p EXCEPT !.left = TRUE] ELSE p : p \in @}],
                  <<ToUser(row.initiator, CallEvent("call.rejected", id, "", cUserID[c], 0, 0)),
                    ToUser(row.initiator, CallEvent("call.ended", id, "", cUserID[c], 0, 0))>>)

\* coreHub.handleCallJoin: join info to the joining user
handleCallJoin(M, c, call, storeOk) ==
  IF ~cfg.calls
  THEN Step(M, <<sendCallError(c, "calls_disabled")>>)
  ELSE IF cIsGuest[c] \/ cUserID[c] = 0
  THEN Step(M, <<sendCallError(c, "unauthorized")>>)
  ELSE
    LET info == serviceGetJoinInfo(M, call.callID, cUserID[c], storeOk) IN
    IF ~info.ok
    THEN Step(M, <<sendCallError(c, "call_error")>>)
    ELSE Step(info.m, <<Send(c, CallEvent("call.join-info", call.callID, "", 0, 0, 0))>>)

\* handleCallLeave without the test of h.callService
handleCallLeaveUnchecked(M, c, call, storeOk, now) ==
  IF cIsGuest[c] \/ cUserID[c] = 0
  THEN Step(M, <<sendCallError(c, "unauthorized")>>)
  ELSE
    LET id == call.callID
        part == \E p \in M.dbParticipants : p.call = id /\ p.user = cUserID[c]
        parts == {IF p.call = id /\ p.user = cUserID[c]
                  THEN [p EXCEPT !.left = TRUE] ELSE p : p \in M.dbParticipants}
        allLeft == \A p \in parts : p.call = id => p.left
    IN  IF ~part \/ ~storeOk
        THEN Step(M, <<sendCallError(c, "call_error")>>)
        ELSE Step([M EXCEPT !.dbParticipants = parts,
                            !.dbCalls = IF allLeft /\ id \in DOMAIN @ /\ @[id].status # "ended"
                                        THEN [@ EXCEPT ![id] = [@ EXCEPT !.status = "ended",
                                                                         !.endedAt = now]]
                                        ELSE @],
                  <<>>)

\* coreHub.handleCallLeave: Service.LeaveCall marks the participant as having
\* left and ends the call once every participant has; no event is sent
handleCallLeave(M, c, call, storeOk, now) ==
  IF ~cfg.calls
  THEN Step(M, <<sendCallError(c, "calls_disabled")>>)
  ELSE IF cIsGuest[c] \/ cUserID[c] = 0
  THEN Step(M, <<sendCallError(c, "unauthorized")>>)
  ELSE
    LET id == call.callID
        part == \E p \in M.dbParticipants : p.call = id /\ p.user = cUserID[c]
        parts == {IF p.call = id /\ p.user = cUserID[c]
                  THEN [p EXCEPT !.left = TRUE] ELSE p : p \in M.dbParticipants}
        allLeft == \A p \in parts : p.call = id => p.left
    IN  IF ~part \/ ~storeOk
        THEN Step(M, <<sendCallError(c, "call_error")>>)
        ELSE Step([M EXCEPT !.dbParticipants = parts,
                            !.dbCalls = IF allLeft /\ id \in DOMAIN @ /\ @[id].status # "ended"
                                        THEN [@ EXCEPT ![id] = [@ EXCEPT !.status = "ended",
                                                                         !.endedAt = now]]
                                        ELSE @],
                  <<>>)

\* coreHub.handleCallEnd: Service.GetCall, Service.EndCall, and call.ended to
\* the initiator when another user ended
handleCallEnd(M, c, call, storeOk, now) ==
  IF ~cfg.calls
  THEN Step(M, <<sendCallError(c, "calls_disabled")>>)
  ELSE IF cIsGuest[c] \/ cUserID[c] = 0
  THEN Step(M, <<sendCallError(c, "unauthorized")>>)
  ELSE IF call.callID \notin DOMAIN M.dbCalls \/ ~storeOk
  THEN Step(M, <<sendCallError(c, "call_not_found")>>)
  ELSE
    LET id == call.callID
        row == M.dbCalls[id]
        over == row.status \in {"ended", "failed"}
        part == \E p \in M.dbParticipants : p.call = id /\ p.user = cUserID[c]
    IN  IF ~over /\ ~part /\ row.initiator # cUserID[c]
        THEN Step(M, <<sendCallError(c, "call_error")>>)
        ELSE Step(IF over THEN M
                  ELSE [M EXCEPT !.dbCalls[id] = [@ EXCEPT !.status = "ended",
                                                           !.endedAt = now],
                                 !.endedCalls = @ \cup {id}],
                  IF row.initiator # cUserID[c]
                  THEN <<ToUser(row.initiator,
                                CallEvent("call.ended", id, "", cUserID[c], 0, 0))>>
                  ELSE <<>>)

\* runs the pending steps of the handler the Hub is in, up to a send that
\* blocks on a full Events channel or a panic
RECURSIVE Exec(_, _)
Exec(M, ops) ==
  IF M.panic \/ ops = <<>> THEN [M EXCEPT !.todo = <<>>]
  ELSE
    LET o == Head(ops) IN
    CASE o.op = "send" ->
           IF M.cClosed[o.to] THEN [M EXCEPT !.panic = TRUE, !.todo = <<>>]
           ELSE IF Len(M.cEvents[o.to]) >= EventsCap THEN [M EXCEPT !.todo = ops]
           ELSE Exec([M EXCEPT !.cEvents[o.to] = Append(@, o.ev)], Tail(ops))
      [] o.op = "leave" ->
           LET st == leaveRoom(M, o.c, o.room) IN Exec(st.m, st.ops \o Tail(ops))
      [] o.op = "finish" -> Exec(removeFinish(M, o.c), Tail(ops))
      [] o.op = "touser" -> Exec(sendToUser(M, o.user, o.ev), Tail(ops))
      [] o.op = "skip" -> Exec(M, Tail(ops))

\* coreHub.handleCommand
handleCommand(M, c, cmd, storeOk, now) ==
  CASE cmd.kind = "join"  -> joinRoom(M, c, cmd.room, storeOk)
    [] cmd.kind = "leave" -> leaveRoom(M, c, cmd.room)
    [] cmd.kind = "msg"   -> sendRoomMessage(M, c, cmd, storeOk, now)
    [] cmd.kind = "call.invite" -> handleCallInvite(M, c, cmd.call, storeOk)
    [] cmd.kind = "call.accept" -> handleCallAccept(M, c, cmd.call, storeOk)
    [] cmd.kind = "call.reject" -> handleCallReject(M, c, cmd.call, storeOk, now)
    [] cmd.kind = "call.join"   -> handleCallJoin(M, c, cmd.call, storeOk)
    [] cmd.kind = "call.leave"  -> handleCallLeave(M, c, cmd.call, storeOk, now)
    [] cmd.kind = "call.end"    -> handleCallEnd(M, c, cmd.call, storeOk, now)
    [] OTHER -> Step(M, <<>>)

\* time.Now(): the wall clock read by a step that reads it; it never runs
\* backwards between reads
Now(reads) == IF reads THEN clock..Min(clock + 1, MaxClock) ELSE {clock}

\* the state the Hub goroutine owns or writes, as one value
HubM ==
  [clients |-> clients, rooms |-> rooms, userClients |-> userClients,
   cRooms |-> cRooms, cEvents |-> cEvents, cClosed |-> cClosed,
   dbMessages |-> dbMessages, dbCalls |-> dbCalls, dbParticipants |-> dbParticipants,
   endedCalls |-> endedCalls,
   panic |-> FALSE, todo |-> <<>>]

Commit(M) ==
  /\ clients' = M.clients
  /\ rooms' = M.rooms
  /\ userClients' = M.userClients
  /\ cRooms' = M.cRooms
  /\ cEvents' = M.cEvents
  /\ cClosed' = M.cClosed
  /\ dbMessages' = M.dbMessages
  /\ dbCalls' = M.dbCalls
  /\ dbParticipants' = M.dbParticipants
  /\ endedCalls' = M.endedCalls
  /\ hubTodo' = M.todo
  /\ hubState' = IF M.panic THEN "panic" ELSE hubState

Perms(S) == {q \in [1..Cardinality(S) -> S] : \A i, j \in 1..Cardinality(S) : i # j => q[i] # q[j]}

\* the Hub is at its select
AtSelect == hubState = "run" /\ hubTodo = <<>>

\* Run: case client := <-h.register
HubRegister ==
  /\ AtSelect
  /\ register # <<>>
  /\ LET c == Head(register) IN
       /\ register' = Tail(register)
       /\ clients' = clients \cup {c}
       /\ userClients' = IF cUserID[c] > 0
                         THEN (cUserID[c] :> c) @@ userClients
                         ELSE userClients
       /\ fwd' = [fwd EXCEPT ![c] = [st |-> "idle", cmd |-> <<>>]]
  /\ UNCHANGED <<rooms, unregister, commands, hubTodo, hubState, ctxDone,
                 clientVars, conn, pushed, dbMessages, clock, readerVars, dbMembers, roomVars, callVars>>

\* Run: case client := <-h.unregister
HubUnregister ==
  /\ AtSelect
  /\ unregister # <<>>
  /\ LET c == Head(unregister) IN
       \E order \in Perms(cRooms[c]) :
         LET st == removeClient(HubM, c, order) IN Commit(Exec(st.m, st.ops))
  /\ unregister' = Tail(unregister)
  /\ UNCHANGED <<register, commands, ctxDone, cUserID, cName, cIsGuest, cCommands,
                 fwd, conn, pushed, clock, readerVars, dbMembers, roomVars, svc, callOps>>

\* Run: case cmd := <-h.commands
HubCommand ==
  /\ AtSelect
  /\ commands # <<>>
  /\ Head(commands).cmd.kind = "call.invite" => Cardinality(DOMAIN dbCalls) < MaxCalls
  /\ LET cc == Head(commands) IN
       \E storeOk \in BOOLEAN :
         \E now \in Now(cc.cmd.kind \in {"msg", "call.reject", "call.leave", "call.end"}) :
           LET st == handleCommand(HubM, cc.client, cc.cmd, storeOk, now) IN
           /\ Commit(Exec(st.m, st.ops))
           /\ clock' = now
  /\ commands' = Tail(commands)
  /\ UNCHANGED <<register, unregister, ctxDone, cUserID, cName, cIsGuest, cCommands,
                 fwd, conn, pushed, readerVars, dbMembers, roomVars, svc, callOps>>

\* the Hub, blocked in  client.Events <- ev , completes the send once the
\* channel has room (or panics once it is closed) and runs on
HubResume ==
  /\ hubState = "run"
  /\ hubTodo # <<>>
  /\ LET o == Head(hubTodo) IN cClosed[o.to] \/ Len(cEvents[o.to]) < EventsCap
  /\ Commit(Exec(HubM, hubTodo))
  /\ UNCHANGED <<register, unregister, commands, ctxDone, cUserID, cName, cIsGuest,
                 cCommands, fwd, conn, pushed, clock, readerVars, dbMembers, roomVars, svc, callOps>>

\* coreHub.shutdown, from Run: case <-ctx.Done()
shutdown ==
  /\ AtSelect
  /\ ctxDone
  /\ IF \E c \in clients : cClosed[c]
     THEN hubState' = "panic" /\ cClosed' = cClosed
     ELSE /\ hubState' = "stopped"
          /\ cClosed' = [c \in Sessions |-> cClosed[c] \/ c \in clients]
  /\ UNCHANGED <<clients, rooms, userClients, register, unregister, commands, hubTodo,
                 ctxDone, cUserID, cName, cIsGuest, cRooms, cEvents, cCommands,
                 fwd, conn, pushed, dbMessages, clock, readerVars, dbMembers, roomVars, callVars>>

\* consumeCommands: case cmd, ok := <-client.Commands
FwdTake(c) ==
  /\ hubState # "panic"
  /\ fwd[c].st = "idle"
  /\ cCommands[c] # <<>>
  /\ fwd' = [fwd EXCEPT ![c] = [st |-> "hold", cmd |-> <<Head(cCommands[c])>>]]
  /\ cCommands' = [cCommands EXCEPT ![c] = Tail(@)]
  /\ UNCHANGED <<hubVars, cUserID, cName, cIsGuest, cRooms, cEvents, cClosed,
                 conn, pushed, dbMessages, clock, readerVars, dbMembers, roomVars, callVars>>

\* a forwarder that lets the next command of the inbox overtake the one it holds
FwdPutOvertake(c) ==
  /\ hubState # "panic"
  /\ fwd[c].st = "hold"
  /\ Len(commands) < CommandsCap
  /\ IF cCommands[c] # <<>>
     THEN /\ commands' = Append(commands, [client |-> c, cmd |-> Head(cCommands[c])])
          /\ cCommands' = [cCommands EXCEPT ![c] = Tail(@)]
          /\ fwd' = fwd
     ELSE /\ commands' = Append(commands, [client |-> c, cmd |-> fwd[c].cmd[1]])
          /\ cCommands' = cCommands
          /\ fwd' = [fwd EXCEPT ![c] = [st |-> "idle", cmd |-> <<>>]]
  /\ UNCHANGED <<clients, rooms, userClients, register, unregister, hubTodo, hubState,
                 ctxDone, cUserID, cName, cIsGuest, cRooms, cEvents, cClosed, conn, pushed,
                 dbMessages, clock, readerVars, dbMembers, roomVars, callVars>>

\* consumeCommands: h.commands <- clientCommand{client, cmd}
FwdPut(c) ==
  /\ hubState # "panic"
  /\ fwd[c].st = "hold"
  /\ Len(commands) < CommandsCap
  /\ commands' = Append(commands, [client |-> c, cmd |-> fwd[c].cmd[1]])
  /\ fwd' = [fwd EXCEPT ![c] = [st |-> "idle", cmd |-> <<>>]]
  /\ UNCHANGED <<clients, rooms, userClients, register, unregister, hubTodo, hubState,
                 ctxDone, clientVars, conn, pushed, dbMessages, clock, readerVars, dbMembers, roomVars, callVars>>

\* consumeCommands: case <-ctx.Done()
FwdDone(c) ==
  /\ hubState # "panic"
  /\ fwd[c].st = "idle"
  /\ ctxDone
  /\ fwd' = [fwd EXCEPT ![c] = [st |-> "exit", cmd |-> <<>>]]
  /\ UNCHANGED <<hubVars, clientVars, conn, pushed, dbMessages, clock, readerVars, dbMembers, roomVars, callVars>>

\* ------------------------------------------------- callers of the Hub API
Alive == hubState # "panic"

\* identities a caller of core.NewClient gives a client: the one ServeHTTP
\* gives (0, false), an authenticated user, a guest
Identities == {[uid |-> 0, guest |-> FALSE], [uid |-> 1, guest |-> FALSE]}
HubRooms == {"", "general", "lobby"}
Command(kind, room, createdAt, from) ==
  [kind |-> kind, room |-> room,
   msg |-> [id |-> 0, from |-> from, text |-> "", createdAt |-> createdAt]]
HubCommands == {Command(k, r, 0, "") : k \in {"join", "leave"}, r \in HubRooms}
\* Command{Kind, Call: &CallCommand{CallID, CallType, ToUserID, RoomID}}
CallCommand(kind, callID, callType, toUserID, roomID) ==
  [kind |-> kind, room |-> "", msg |-> NoMsg,
   call |-> [callID |-> callID, callType |-> callType, toUserID |-> toUserID,
             roomID |-> roomID]]

\* core.NewClient(id, name, userID, isGuest) followed by coreHub.RegisterClient:
\* a non-blocking send on h.register
RegisterClient(c, ident) ==
  /\ Alive
  /\ conn[c] = "fresh"
  /\ conn' = [conn EXCEPT ![c] = "open"]
  /\ cUserID' = [cUserID EXCEPT ![c] = ident.uid]
  /\ cIsGuest' = [cIsGuest EXCEPT ![c] = ident.guest]
  /\ cName' = [cName EXCEPT ![c] = IF ident.uid > 0 THEN UserName(ident.uid) ELSE c]
  /\ register' = IF Len(register) < RegisterCap THEN Append(register, c) ELSE register
  /\ UNCHANGED <<clients, rooms, userClients, unregister, commands, hubTodo, hubState,
                 ctxDone, cRooms, cEvents, cClosed, cCommands, fwd, pushed,
                 dbMessages, clock, readerVars, dbMembers, roomVars, callVars>>

\* coreHub.UnregisterClient: a non-blocking send on h.unregister
UnregisterClient(c) ==
  /\ Alive
  /\ conn[c] = "open"
  /\ conn' = [conn EXCEPT ![c] = "closed"]
  /\ unregister' = IF Len(unregister) < RegisterCap THEN Append(unregister, c) ELSE unregister
  /\ UNCHANGED <<clients, rooms, userClients, register, commands, hubTodo, hubState,
                 ctxDone, clientVars, fwd, pushed, dbMessages, clock, readerVars, dbMembers, roomVars, callVars>>

\* client.Commands <- cmd, as the hub tests and the reader do
Push(c, cmd) ==
  /\ Alive
  /\ conn[c] = "open"
  /\ pushed < MaxCmds
  /\ Len(cCommands[c]) < InboxCap
  /\ cCommands' = [cCommands EXCEPT ![c] = Append(@, cmd)]
  /\ pushed' = pushed + 1
  /\ UNCHANGED <<hubVars, cUserID, cName, cIsGuest, cRooms, cEvents, cClosed,
                 fwd, conn, dbMessages, clock, readerVars, dbMembers, roomVars, callVars>>

\* the consumer of client.Events (writeLoop) takes one event
Drain(c) ==
  /\ Alive
  /\ cEvents[c] # <<>>
  /\ cEvents' = [cEvents EXCEPT ![c] = Tail(@)]
  /\ UNCHANGED <<hubVars, cUserID, cName, cIsGuest, cRooms, cClosed, cCommands,
                 fwd, conn, pushed, dbMessages, clock, readerVars, dbMembers, roomVars, callVars>>

\* the context passed to Run is cancelled
Cancel ==
  /\ Alive
  /\ ~ctxDone
  /\ ctxDone' = TRUE
  /\ UNCHANGED <<clients, rooms, userClients, register, unregister, commands, hubTodo,
                 hubState, clientVars, fwd, conn, pushed, dbMessages, clock, readerVars, dbMembers, roomVars, callVars>>

\* ------------------------------------------------------- the connection
\* inbound frames: {type, data}
Frame(type, room, protocol, token, user) ==
  [type |-> type, room |-> room, protocol |-> protocol, token |-> token, user |-> user,
   text |-> ""]
\* a msg frame: {room, text}
MsgFrame(room, text) == [Frame("msg", room, 0, "", "") EXCEPT !.text = text]
Hello(protocol, token, user) == Frame("hello", "", protocol, token, user)
\* a call.invite frame {call_type, to_user_id, room_id} or a call.end frame
\* {call_id}
CallFrame(type, callID, callType, toUserID, roomID) ==
  [type |-> type, room |-> "", protocol |-> 0, token |-> "", user |-> "", text |-> "",
   callID |-> callID, callType |-> callType, toUserID |-> toUserID, roomID |-> roomID]
\* proto.ProtocolVersion
ProtocolVersion == 1

\* auth.Service.ValidateToken: the claims of a token, <<>> if it is invalid
ValidateToken(token) ==
  CASE token = "tok1" -> <<[uid |-> 1, name |-> "alice", guest |-> FALSE]>>
    [] token = "tok2" -> <<[uid |-> 2, name |-> "bob", guest |-> FALSE]>>
    [] OTHER -> <<>>

\* inboundToCommand: the command, or the protocol error, of a well-formed frame
inboundToCommand(c, f, now) ==
  IF f.type \in {"join", "leave", "msg"}
  THEN IF f.room = ""
       THEN [cmd |-> <<>>, protoErr |-> "bad_request"]
       ELSE [cmd |-> <<[Command(f.type, f.room,
                                IF f.type = "msg" THEN now ELSE 0,
                                IF f.type = "msg" THEN cName[c] ELSE "")
                         EXCEPT !.msg.text = f.text]>>,
             protoErr |-> ""]
  ELSE IF f.type = "call.invite"
  THEN IF \/ f.callType \notin {"direct", "room"}
          \/ f.callType = "direct" /\ f.toUserID = 0
          \/ f.callType = "room" /\ f.roomID = 0
       THEN [cmd |-> <<>>, protoErr |-> "bad_request"]
       ELSE [cmd |-> <<CallCommand("call.invite", "", f.callType, f.toUserID, f.roomID)>>,
             protoErr |-> ""]
  ELSE IF f.type = "call.end"
  THEN IF f.callID = ""
       THEN [cmd |-> <<>>, protoErr |-> "bad_request"]
       ELSE [cmd |-> <<CallCommand("call.end", f.callID, "", 0, 0)>>, protoErr |-> ""]
  ELSE [cmd |-> <<>>, protoErr |-> "invalid_message"]

\* WSHandler.handleHello: the protocol error and the identity of the client
\* after it
\* handleHello with the version test after the identity is set
handleHelloVersionLast(c, f, jwtRequired) ==
  LET same == [protoErr |-> "", uid |-> cUserID[c], name |-> cName[c], guest |-> cIsGuest[c]]
      claims == ValidateToken(f.token)
      guestMode == [same EXCEPT !.name = IF f.user # "" THEN f.user ELSE "guest-" \o c,
                                !.guest = TRUE]
      done == IF f.token # ""
              THEN IF claims = <<>>
                   THEN IF jwtRequired THEN [same EXCEPT !.protoErr = "unauthorized"]
                        ELSE guestMode
                   ELSE [protoErr |-> "", uid |-> claims[1].uid, name |-> claims[1].name,
                         guest |-> claims[1].guest]
              ELSE IF jwtRequired THEN [same EXCEPT !.protoErr = "unauthorized"]
              ELSE guestMode
  IN  IF f.protocol # 0 /\ f.protocol # ProtocolVersion
      THEN [done EXCEPT !.protoErr = "unsupported_version"]
      ELSE done

handleHello(c, f, jwtRequired) ==
  LET same == [protoErr |-> "", uid |-> cUserID[c], name |-> cName[c], guest |-> cIsGuest[c]]
      claims == ValidateToken(f.token)
      guestMode == [same EXCEPT !.name = IF f.user # "" THEN f.user ELSE "guest-" \o c,
                                !.guest = TRUE]
  IN  IF f.protocol # 0 /\ f.protocol # ProtocolVersion
      THEN [same EXCEPT !.protoErr = "unsupported_version"]
      ELSE IF f.token # ""
      THEN IF claims = <<>>
           THEN IF jwtRequired THEN [same EXCEPT !.protoErr = "unauthorized"] ELSE guestMode
           ELSE [protoErr |-> "", uid |-> claims[1].uid, name |-> claims[1].name,
                 guest |-> claims[1].guest]
      ELSE IF jwtRequired THEN [same EXCEPT !.protoErr = "unauthorized"]
      ELSE guestMode

\* newRateLimiter
newRateLimiter(limit) ==
  IF limit <= 0 THEN [limit |-> 0, counter |-> 0, seen |-> 0]
  ELSE [limit |-> limit, counter |-> 0, seen |-> 0]

\* rateLimiter.allow, with the tick of the reset goroutine (r.counter = 0,
\* unsynchronised) falling outside the call ("none"), between the load and
\* the store of r.counter++ ("lost": the reset is overwritten), or between
\* that store and the load of r.counter in the comparison ("reload")
allow(r, tick) ==
  IF r.limit <= 0 THEN [lim |-> r, ok |-> TRUE]
  ELSE CASE tick = "none" ->
              [lim |-> [r EXCEPT !.counter = @ + 1, !.seen = @ + 1],
               ok |-> r.counter + 1 <= r.limit]
         [] tick = "lost" ->
              [lim |-> [r EXCEPT !.counter = @ + 1, !.seen = 0],
               ok |-> r.counter + 1 <= r.limit]
         [] tick = "reload" ->
              [lim |-> [r EXCEPT !.counter = 0, !.seen = 0],
               ok |-> 0 <= r.limit]

\* SQLiteStore.IsMember
IsMember(userID, roomID) == <<userID, roomID>> \in dbMembers

\* joinAccess without the membership check of private and direct rooms
joinAccessNoMembership(c, roomName, storeErr) ==
  IF storeErr = "room" \/ roomName \notin DbRoomNames THEN "room_not_found"
  ELSE LET room == DbRoom(roomName) IN
       CASE room.type \in {"public", "private", "direct"} -> ""
         [] OTHER -> "access_denied"

\* readLoop, the join branch: the error code the join is refused with, ""
\* when it is forwarded; storeErr is the store call that fails, if any
joinAccess(c, roomName, storeErr) ==
  IF storeErr = "room" \/ roomName \notin DbRoomNames THEN "room_not_found"
  ELSE LET room == DbRoom(roomName) IN
       CASE room.type = "public" -> ""
         [] room.type \in {"private", "direct"} ->
              IF storeErr = "member" THEN "internal_error"
              ELSE IF ~IsMember(cUserID[c], room.id) THEN "access_denied"
              ELSE ""
         [] OTHER -> "access_denied"

\* WSHandler.ServeHTTP up to the start of the loops: core.NewClient(id, "", 0,
\* false), RegisterClient, and readLoop's limiters and authenticated flag
Accept(c) ==
  /\ Alive
  /\ conn[c] = "fresh"
  /\ conn' = [conn EXCEPT ![c] = "open"]
  /\ register' = IF Len(register) < RegisterCap THEN Append(register, c) ELSE register
  /\ joinLimiter' = [joinLimiter EXCEPT ![c] = newRateLimiter(cfg.joinLimit)]
  /\ msgLimiter' = [msgLimiter EXCEPT ![c] = newRateLimiter(cfg.msgLimit)]
  /\ authenticated' = [authenticated EXCEPT ![c] = ~cfg.jwtRequired]
  /\ UNCHANGED <<clients, rooms, userClients, unregister, commands, hubTodo, hubState,
                 ctxDone, clientVars, fwd, pushed, cfg, pending, last, frames, resets,
                 dbMessages, dbMembers, roomVars, clock, callVars>>

\* one iteration of readLoop on a well-formed frame, up to the push of the
\* command onto client.Commands, which is left pending when the channel is full
ReadFrame(c, f, tick, storeErr) ==
  /\ Alive
  /\ conn[c] = "open"
  /\ pending[c] = <<>>
  /\ frames < MaxFrames
  /\ tick # "none" => resets < MaxResets
  /\ \E now \in Now(f.type = "msg") :
       LET dec == inboundToCommand(c, f, now)
           hello == handleHello(c, f, cfg.jwtRequired)
           isHello == f.type = "hello"
           err1 == IF isHello THEN hello.protoErr ELSE dec.protoErr
           auth == authenticated[c] \/ (isHello /\ hello.protoErr = "")
           err2 == IF ~auth /\ ~isHello /\ cfg.jwtRequired THEN "unauthorized" ELSE err1
           limited == dec.cmd # <<>> /\ f.type \in {"join", "msg"}
           lim == IF f.type = "join" THEN joinLimiter[c] ELSE msgLimiter[c]
           al == IF limited THEN allow(lim, tick) ELSE [lim |-> lim, ok |-> TRUE]
           err3 == IF ~al.ok THEN "rate_limited" ELSE err2
           err4 == IF err3 = "" /\ f.type = "join" /\ dec.cmd # <<>>
                   THEN joinAccess(c, f.room, storeErr) ELSE err3
           push == err4 = "" /\ dec.cmd # <<>>
           room == Len(cCommands[c]) < InboxCap
       IN  /\ limited \/ tick = "none"
           /\ al.lim.limit > 0 \/ tick = "none"
           /\ (f.type = "join" /\ err3 = "" /\ dec.cmd # <<>>) \/ storeErr = "none"
           /\ clock' = now
           /\ authenticated' = [authenticated EXCEPT ![c] = auth]
           /\ cUserID' = [cUserID EXCEPT ![c] = IF isHello THEN hello.uid ELSE @]
           /\ cName' = [cName EXCEPT ![c] = IF isHello THEN hello.name ELSE @]
           /\ cIsGuest' = [cIsGuest EXCEPT ![c] = IF isHello THEN hello.guest ELSE @]
           /\ joinLimiter' = [joinLimiter EXCEPT ![c] =
                                 IF limited /\ f.type = "join" THEN al.lim ELSE @]
           /\ msgLimiter' = [msgLimiter EXCEPT ![c] =
                                 IF limited /\ f.type = "msg" THEN al.lim ELSE @]
           /\ cCommands' = [cCommands EXCEPT ![c] =
                                 IF push /\ room THEN Append(@, dec.cmd[1]) ELSE @]
           /\ pending' = [pending EXCEPT ![c] = IF push /\ ~room THEN dec.cmd ELSE <<>>]
           /\ last' = [last EXCEPT ![c] =
                         <<[type |-> f.type, room |-> f.room, frame |-> f, code |-> err4,
                            forwarded |-> push, authed |-> auth,
                            pre |-> err3, storeErr |-> storeErr,
                            uid |-> cUserID[c],
                            limit |-> IF limited THEN lim.limit ELSE 0,
                            seen |-> IF limited THEN lim.seen + 1 ELSE 0]>>]
  /\ frames' = frames + 1
  /\ resets' = IF tick = "none" THEN resets ELSE resets + 1
  /\ UNCHANGED <<hubVars, cRooms, cEvents, cClosed, fwd, conn, pushed, cfg,
                 dbMessages, dbMembers, roomVars, callVars>>

\* readLoop: client.Commands <- cmd completes
ReaderPush(c) ==
  /\ Alive
  /\ pending[c] # <<>>
  /\ Len(cCommands[c]) < InboxCap
  /\ cCommands' = [cCommands EXCEPT ![c] = Append(@, pending[c][1])]
  /\ pending' = [pending EXCEPT ![c] = <<>>]
  /\ UNCHANGED <<hubVars, cUserID, cName, cIsGuest, cRooms, cEvents, cClosed, fwd, conn,
                 pushed, cfg, authenticated, joinLimiter, msgLimiter, last, frames,
                 resets, dbMessages, dbMembers, roomVars, clock, callVars>>

\* readLoop returns (EOF, close, read error, malformed frame) and ServeHTTP
\* runs its deferred UnregisterClient
ReaderExit(c) ==
  /\ Alive
  /\ conn[c] = "open"
  /\ pending[c] = <<>>
  /\ conn' = [conn EXCEPT ![c] = "closed"]
  /\ unregister' = IF Len(unregister) < RegisterCap THEN Append(unregister, c) ELSE unregister
  /\ UNCHANGED <<clients, rooms, userClients, register, commands, hubTodo, hubState,
                 ctxDone, clientVars, fwd, pushed, readerVars, dbMessages, dbMembers, roomVars, clock, callVars>>

\* rateLimiter.startReset: case <-r.reset.C, while the reader is not inside allow()
ResetTick(c, kind) ==
  /\ Alive
  /\ conn[c] = "open"
  /\ resets < MaxResets
  /\ resets' = resets + 1
  /\ IF kind = "join"
     THEN /\ joinLimiter[c].limit > 0
          /\ joinLimiter' = [joinLimiter EXCEPT ![c] = [@ EXCEPT !.counter = 0, !.seen = 0]]
          /\ UNCHANGED msgLimiter
     ELSE /\ msgLimiter[c].limit > 0
          /\ msgLimiter' = [msgLimiter EXCEPT ![c] = [@ EXCEPT !.counter = 0, !.seen = 0]]
          /\ UNCHANGED joinLimiter
  /\ UNCHANGED <<hubVars, clientVars, fwd, conn, pushed, cfg, authenticated, pending,
                 last, frames, dbMessages, dbMembers, roomVars, clock, callVars>>

\* --------------------------------------------------- the calls service
\* the goroutines that call the service: the Hub (call.* commands) and an
\* HTTP handler (CallsHandlers)
Threads == {"hub", "rest"}
CallIDs == {"k" \o ToString(i) : i \in 1..MaxCalls}
Idle == [pc |-> "idle", id |-> "", user |-> 0, call |-> <<>>]

\* SQLiteStore.GetCall: the row, <<>> when there is none
GetCall(id) == IF id \in DOMAIN dbCalls THEN <<dbCalls[id]>> ELSE <<>>
\* SQLiteStore.UpdateCall: SET status = ?, ..., ended_at = ? WHERE id = ?
UpdateCall(calls, id, call) ==
  IF id \in DOMAIN calls
  THEN [calls EXCEPT ![id] = [@ EXCEPT !.status = call.status, !.endedAt = call.endedAt]]
  ELSE calls
\* SQLiteStore.GetParticipant
GetParticipant(id, user) == {p \in dbParticipants : p.call = id /\ p.user = user}
\* SQLiteStore.UpdateParticipant, setting left_at
MarkLeft(parts, id, user) ==
  {IF p.call = id /\ p.user = user THEN [p EXCEPT !.left = TRUE] ELSE p : p \in parts}

\* a thread starts a call of the service
Begin(t, pc, id, user, call) ==
  /\ svc[t].pc = "idle"
  /\ callOps < MaxCallOps
  /\ callOps' = callOps + 1
  /\ svc' = [svc EXCEPT ![t] = [pc |-> pc, id |-> id, user |-> user, call |-> call]]
Return(t) == svc' = [svc EXCEPT ![t] = Idle]
OtherVars ==
  <<hubVars, clientVars, fwd, conn, pushed, readerVars, dbMessages, dbMembers, roomVars>>

\* Service.CreateDirectCall with the engine answering: the call row, ringing,
\* and both users as participants
CreateDirectCall(t, from, to) ==
  /\ svc[t].pc = "idle"
  /\ callOps < MaxCallOps
  /\ from # to
  /\ \E id \in CallIDs \ DOMAIN dbCalls :
       /\ dbCalls' = (id :> [status |-> "ringing", endedAt |-> 0, initiator |-> from,
                              type |-> "direct", roomID |-> 0])
                       @@ dbCalls
       /\ dbParticipants' = dbParticipants \cup
            {[call |-> id, user |-> u, left |-> FALSE] : u \in {from, to}}
  /\ callOps' = callOps + 1
  /\ UNCHANGED <<svc, clock, OtherVars, endedCalls>>

\* Service.GetJoinInfo, Service.EndCall, Service.RejectCall up to the return
\* of s.store.GetCall and the test of call.Status
ReadCall(t, op, id, user) ==
  /\ LET call == GetCall(id)
         stop == \/ call = <<>>
                 \/ op \in {"join", "end"} /\ call[1].status \in {"ended", "failed"}
                 \/ op = "reject" /\ call[1].status # "ringing"
     IN  Begin(t, IF stop THEN "idle" ELSE op, IF stop THEN "" ELSE id,
               IF stop THEN 0 ELSE user, IF stop THEN <<>> ELSE call)
  /\ UNCHANGED <<dbCalls, dbParticipants, clock, OtherVars, endedCalls>>

\* Service.GetJoinInfo from s.store.GetParticipant on, for a direct call:
\* a call read as ringing is written back as active
GetJoinInfo(t) ==
  /\ svc[t].pc = "join"
  /\ LET call == svc[t].call[1] IN
       IF GetParticipant(svc[t].id, svc[t].user) # {} /\ call.status = "ringing"
       THEN dbCalls' = UpdateCall(dbCalls, svc[t].id, [call EXCEPT !.status = "active"])
       ELSE dbCalls' = dbCalls
  /\ Return(t)
  /\ UNCHANGED <<dbParticipants, callOps, clock, OtherVars, endedCalls>>

\* Service.EndCall from s.store.GetParticipant on
EndCall(t) ==
  /\ svc[t].pc = "end"
  /\ \E now \in Now(TRUE) :
       LET call == svc[t].call[1] IN
         /\ IF GetParticipant(svc[t].id, svc[t].user) = {} /\ call.initiator # svc[t].user
            THEN dbCalls' = dbCalls /\ endedCalls' = endedCalls
            ELSE /\ dbCalls' = UpdateCall(dbCalls, svc[t].id,
                                          [call EXCEPT !.status = "ended", !.endedAt = now])
                 /\ endedCalls' = endedCalls \cup {svc[t].id}
         /\ clock' = now
  /\ Return(t)
  /\ UNCHANGED <<dbParticipants, callOps, OtherVars>>

\* Service.RejectCall from s.store.GetParticipant on
RejectCall(t) ==
  /\ svc[t].pc = "reject"
  /\ \E now \in Now(TRUE) :
       LET call == svc[t].call[1] IN
         /\ IF GetParticipant(svc[t].id, svc[t].user) = {}
            THEN dbCalls' = dbCalls /\ dbParticipants' = dbParticipants
            ELSE /\ dbCalls' = UpdateCall(dbCalls, svc[t].id,
                                          [call EXCEPT !.status = "ended", !.endedAt = now])
                 /\ dbParticipants' = MarkLeft(dbParticipants, svc[t].id, svc[t].user)
         /\ clock' = now
  /\ Return(t)
  /\ UNCHANGED <<callOps, OtherVars, endedCalls>>

\* Service.LeaveCall up to the return of s.store.GetCall: the participant is
\* marked as having left, and the call is read when every participant has
LeaveCall(t, id, user) ==
  /\ LET found == GetParticipant(id, user) # {}
         parts == IF found THEN MarkLeft(dbParticipants, id, user) ELSE dbParticipants
         allLeft == \A p \in parts : p.call = id => p.left
         call == GetCall(id)
         go == found /\ allLeft /\ call # <<>> /\ call[1].status # "ended"
     IN  /\ Begin(t, IF go THEN "leave" ELSE "idle", IF go THEN id ELSE "",
                  IF go THEN user ELSE 0, IF go THEN call ELSE <<>>)
         /\ dbParticipants' = parts
  /\ UNCHANGED <<dbCalls, clock, OtherVars, endedCalls>>

\* Service.LeaveCall: s.store.UpdateCall of the call it read, as ended
LeaveCallEnd(t) ==
  /\ svc[t].pc = "leave"
  /\ \E now \in Now(TRUE) :
       /\ dbCalls' = UpdateCall(dbCalls, svc[t].id,
                                [svc[t].call[1] EXCEPT !.status = "ended", !.endedAt = now])
       /\ clock' = now
  /\ Return(t)
  /\ UNCHANGED <<dbParticipants, callOps, OtherVars, endedCalls>>

\* the Hub's call handlers call every method; CallsHandlers creates calls,
\* gets join info and ends calls
NextCalls ==
  \/ \E t \in Threads : \E from, to \in CallUsers : CreateDirectCall(t, from, to)
  \/ \E t \in Threads : \E op \in {"join", "end"} : \E id \in CallIDs : \E u \in CallUsers :
       ReadCall(t, op, id, u)
  \/ \E id \in CallIDs : \E u \in CallUsers : ReadCall("hub", "reject", id, u)
  \/ \E id \in CallIDs : \E u \in CallUsers : LeaveCall("hub", id, u)
  \/ \E t \in Threads : GetJoinInfo(t)
  \/ \E t \in Threads : EndCall(t)
  \/ RejectCall("hub")
  \/ LeaveCallEnd("hub")

\* configurations: jwt_required, rate_limit_join_per_min, rate_limit_msg_per_min
Configs == {[jwtRequired |-> j, joinLimit |-> n, msgLimit |-> n, calls |-> TRUE] :
              j \in BOOLEAN, n \in {0, 1}}
\* a rateLimiter: seen counts the calls of allow() since the last tick of reset
NoLimiter == [limit |-> 0, counter |-> 0, seen |-> 0]

\* NewHub, and clients not yet constructed
\* the rooms table the server starts with: the rows of DbRoom, in id order
SeedRooms ==
  [i \in 1..4 |->
     LET name == CHOOSE n \in DbRoomNames : DbRoom(n).id = i
     IN  [name |-> name, type |-> DbRoom(name).type, directKey |-> ""]]
\* the goroutines net/http serves REST requests on
RoomThreads == {"h1", "h2"}
NoRequest == [pc |-> "idle", directKey |-> "", user1ID |-> 0, user2ID |-> 0]

\* everything but the rooms and room_members tables
InitCore ==
  /\ clients = {}
  /\ rooms = <<>>
  /\ userClients = <<>>
  /\ register = <<>>
  /\ unregister = <<>>
  /\ commands = <<>>
  /\ hubTodo = <<>>
  /\ hubState = "run"
  /\ ctxDone = FALSE
  /\ cUserID = [c \in Sessions |-> 0]
  /\ cName = [c \in Sessions |-> c]
  /\ cIsGuest = [c \in Sessions |-> FALSE]
  /\ cRooms = [c \in Sessions |-> {}]
  /\ cEvents = [c \in Sessions |-> <<>>]
  /\ cClosed = [c \in Sessions |-> FALSE]
  /\ cCommands = [c \in Sessions |-> <<>>]
  /\ fwd = [c \in Sessions |-> [st |-> "none", cmd |-> <<>>]]
  /\ conn = [c \in Sessions |-> "fresh"]
  /\ pushed = 0
  /\ authenticated = [c \in Sessions |-> FALSE]
  /\ joinLimiter = [c \in Sessions |-> NoLimiter]
  /\ msgLimiter = [c \in Sessions |-> NoLimiter]
  /\ pending = [c \in Sessions |-> <<>>]
  /\ last = [c \in Sessions |-> <<>>]
  /\ frames = 0
  /\ resets = 0
  /\ dbMessages = <<>>
  /\ roomReq = [t \in RoomThreads |-> NoRequest]
  /\ directReplies = {}
  /\ listed = <<>>
  /\ clock = 1
  /\ dbCalls = <<>>
  /\ dbParticipants = {}
  /\ endedCalls = {}
  /\ svc = [t \in Threads |-> Idle]
  /\ callOps = 0

\* the state after construction, over a database with rooms and memberships
InitState ==
  /\ InitCore
  /\ dbMembers = {<<1, 2>>, <<1, 3>>, <<2, 3>>}
  /\ dbRooms = SeedRooms

\* a configuration without jwt_required and with both rate limits at 0
NoLimitsConfig == [jwtRequired |-> FALSE, joinLimit |-> 0, msgLimit |-> 0, calls |-> TRUE]

Init == InitState /\ cfg = NoLimitsConfig

\* the Hub goroutine
Run == HubRegister \/ HubUnregister \/ HubCommand \/ HubResume

Next ==
  \/ Run
  \/ \E c \in Sessions : \E ident \in Identities : RegisterClient(c, ident)
  \/ \E c \in Sessions : UnregisterClient(c)
  \/ \E c \in Sessions : \E cmd \in HubCommands : Push(c, cmd)
  \/ \E c \in Sessions : FwdTake(c)
  \/ \E c \in Sessions : FwdPut(c)
  \/ \E c \in Sessions : Drain(c)

Spec == Init /\ [][Next]_vars

\* ---------------------------------------------- the server: WebSocket path
WSFrames ==
  {Hello(0, "", ""), Hello(0, "tok1", ""), Hello(0, "bad", ""),
   Frame("join", "general", 0, "", ""), Frame("join", "secret", 0, "", ""),
   Frame("join", "dm", 0, "", ""), Frame("join", "odd", 0, "", ""),
   Frame("join", "lobby", 0, "", ""), Frame("msg", "general", 0, "", "")}

\* the connections that arrive over WebSocket
WSSessions == {"s1"}

InitWS == InitState /\ cfg \in Configs

NextWS ==
  \/ Run
  \/ \E c \in WSSessions : Accept(c)
  \/ \E c \in WSSessions : \E f \in WSFrames :
       \E tick \in {"none", "lost", "reload"} : \E storeErr \in {"none", "room", "member"} :
         ReadFrame(c, f, tick, storeErr)
  \/ \E c \in WSSessions : ReaderPush(c)
  \/ \E c \in WSSessions : ReaderExit(c)
  \/ \E c \in WSSessions : \E kind \in {"join", "msg"} : ResetTick(c, kind)
  \/ \E c \in WSSessions : FwdTake(c)
  \/ \E c \in WSSessions : FwdPut(c)
  \/ \E c \in WSSessions : Drain(c)

SpecWS == InitWS /\ [][NextWS]_vars

\* ------------------------------------------------- the server: messages
\* the identities of a client: never greeted (0, false), a guest, a user
MsgIdentities == Identities \cup {[uid |-> 0, guest |-> TRUE]}
MsgFrames == {Frame("join", "general", 0, "", ""), MsgFrame("general", "hi")}

\* readLoop on a join or msg frame of a session without limits: the command
\* of inboundToCommand (a msg stamped with time.Now()) is pushed
ReadAndPush(c, f) ==
  /\ Alive
  /\ conn[c] = "open"
  /\ pushed < MaxMsgCmds
  /\ Len(cCommands[c]) < InboxCap
  /\ \E now \in Now(f.type = "msg") :
       /\ cCommands' = [cCommands EXCEPT ![c] = Append(@, inboundToCommand(c, f, now).cmd[1])]
       /\ clock' = now
  /\ pushed' = pushed + 1
  /\ UNCHANGED <<hubVars, cUserID, cName, cIsGuest, cRooms, cEvents, cClosed,
                 fwd, conn, dbMessages, readerVars, dbMembers, roomVars, callVars>>

\* no session disconnects: the unregister case of Run has nothing to take
NextMsg ==
  \/ HubRegister \/ HubCommand \/ HubResume
  \/ \E c \in Sessions : \E ident \in MsgIdentities : RegisterClient(c, ident)
  \/ \E c \in Sessions : \E f \in MsgFrames : ReadAndPush(c, f)
  \/ \E c \in Sessions : FwdTake(c)
  \/ \E c \in Sessions : FwdPut(c)
  \/ \E c \in Sessions : Drain(c)

SpecMsg == Init /\ [][NextMsg]_vars

SpecCalls == Init /\ [][NextCalls]_vars

\* ---------------------------------------------- the server: calls in the Hub
\* clients made with their user id, as the hub tests make them, push call
\* commands
CallIdentities == {[uid |-> 1, guest |-> FALSE], [uid |-> 2, guest |-> FALSE]}
CallCommands ==
  {CallCommand("call.invite", "", "direct", 2, 0), CallCommand("call.invite", "", "direct", 1, 0),
   CallCommand("call.invite", "", "room", 0, 3), CallCommand("call.end", "k1", "", 0, 0)}

NextHubCalls ==
  \/ HubRegister \/ HubCommand \/ HubResume
  \/ \E c \in Sessions : \E ident \in CallIdentities : RegisterClient(c, ident)
  \/ \E c \in Sessions : \E cmd \in CallCommands : Push(c, cmd)
  \/ \E c \in Sessions : FwdTake(c)
  \/ \E c \in Sessions : FwdPut(c)
  \/ \E c \in Sessions : Drain(c)

SpecHubCalls == Init /\ [][NextHubCalls]_vars

\* WebSocket connections greeted with a token send call.invite frames
HelloFrames == {Hello(0, "tok1", ""), Hello(0, "tok2", "")}
CallFrames == {CallFrame("call.invite", "", "direct", 2, 0)}

NextWSCalls ==
  \/ HubRegister \/ HubCommand \/ HubResume
  \/ \E c \in Sessions : Accept(c)
  \/ \E c \in Sessions : \E f \in HelloFrames : ReadFrame(c, f, "none", "none")
  \/ \E c \in Sessions : \E f \in CallFrames : ReadAndPush(c, f)
  \/ \E c \in Sessions : FwdTake(c)
  \/ \E c \in Sessions : FwdPut(c)
  \/ \E c \in Sessions : Drain(c)

SpecWSCalls == Init /\ [][NextWSCalls]_vars

\* a Hub made by NewHub(st, nil): sessions of every identity push the six
\* call commands, and joins
InitNoCalls == InitState /\ cfg = [NoLimitsConfig EXCEPT !.calls = FALSE]
CallKinds ==
  {"call.invite", "call.accept", "call.reject", "call.join", "call.leave", "call.end"}
NoCallsCommands ==
  {CallCommand(k, IF k = "call.invite" THEN "" ELSE "k1",
               IF k = "call.invite" THEN "direct" ELSE "",
               IF k = "call.invite" THEN 2 ELSE 0, 0) : k \in CallKinds}
    \cup {Command("join", "general", 0, "")}

NextNoCalls ==
  \/ HubRegister \/ HubCommand \/ HubResume
  \/ \E c \in Sessions : \E ident \in MsgIdentities \cup CallIdentities : RegisterClient(c, ident)
  \/ \E c \in Sessions : \E cmd \in NoCallsCommands : Push(c, cmd)
  \/ \E c \in Sessions : FwdTake(c)
  \/ \E c \in Sessions : FwdPut(c)
  \/ \E c \in Sessions : Drain(c)

SpecNoCalls == InitNoCalls /\ [][NextNoCalls]_vars

\* ------------------------------------------------- the server: shutdown
\* sessions send commands that are answered with an error and disconnect, and
\* the context of Run is cancelled
ShutdownCommands == {Command("leave", "lobby", 0, "")}

NextShutdown ==
  \/ Run
  \/ shutdown
  \/ Cancel
  \/ \E c \in Sessions : RegisterClient(c, [uid |-> 0, guest |-> FALSE])
  \/ \E c \in Sessions : UnregisterClient(c)
  \/ \E c \in Sessions : \E cmd \in ShutdownCommands : Push(c, cmd)
  \/ \E c \in Sessions : FwdTake(c)
  \/ \E c \in Sessions : FwdPut(c)
  \/ \E c \in Sessions : FwdDone(c)
  \/ \E c \in Sessions : Drain(c)

\* the Hub goroutine runs whenever it can, and its select, which picks among
\* the ready cases at random, picks ctx.Done() if that stays ready; every
\* forwarder runs whenever it can; the writer of a connection takes the
\* events of the outbox as long as the connection is open
FairShutdown ==
  /\ WF_vars(Run \/ shutdown)
  /\ SF_vars(shutdown)
  /\ \A c \in Sessions : WF_vars(FwdTake(c) \/ FwdPut(c) \/ FwdDone(c))
  /\ \A c \in Sessions : WF_vars(conn[c] = "open" /\ Drain(c))

SpecShutdown == Init /\ [][NextShutdown]_vars /\ FairShutdown

\* ------------------------------------------------- the server: handshakes
\* hello frames of every protocol version a client may announce (absent,
\* the supported one, a later one), with no token, a valid one, a bad one
HelloProtocols == {0, ProtocolVersion, ProtocolVersion + 1}
HandshakeFrames ==
  {Hello(p, tok, u) : p \in HelloProtocols, tok \in {"", "tok1", "bad"}, u \in {"", "neo"}}

\* one connection that sends hello frames only
NextHandshake ==
  \/ HubRegister
  \/ HubUnregister
  \/ \E c \in WSSessions : Accept(c)
  \/ \E c \in WSSessions : \E f \in HandshakeFrames : ReadFrame(c, f, "none", "none")
  \/ \E c \in WSSessions : ReaderExit(c)

SpecHandshake == InitWS /\ [][NextHandshake]_vars

\* ------------------------------------------------- the REST surface: rooms
RoomUsers == {1, 2, 3}
RoomNames == {"lobby", "dm-1-2"}
RoomOther ==
  <<hubVars, clientVars, fwd, conn, pushed, readerVars, dbMessages, clock, callVars, listed>>

\* Room.DirectKey: "dm:{minUserId}:{maxUserId}"
DirectKey(a, b) ==
  "dm:" \o ToString(Min(a, b)) \o ":" \o ToString(IF a <= b THEN b ELSE a)
\* SQLiteStore.GetRoomByDirectKey: the ids of the rows WHERE direct_key = ?
GetRoomByDirectKey(directKey) ==
  {i \in DOMAIN dbRooms : dbRooms[i].directKey = directKey}
Reply(user1ID, user2ID, status, id) ==
  [user1ID |-> user1ID, user2ID |-> user2ID, status |-> status, id |-> id]

\* RoomHandlers.CreateRoom with SQLiteStore.CreateRoom: one INSERT of a
\* public room, refused (409) by the UNIQUE constraint on rooms.name
CreateRoom(name) ==
  /\ dbRooms' = IF \E i \in DOMAIN dbRooms : dbRooms[i].name = name
                THEN dbRooms
                ELSE Append(dbRooms, [name |-> name, type |-> "public", directKey |-> ""])
  /\ UNCHANGED <<RoomOther, dbMembers, roomReq, directReplies>>

\* POST /api/rooms/direct by user uid with {"user_id": userID}: the handler
\* refuses a room with oneself (400) and calls the store with the key and the
\* ids of the sorted pair; SQLiteStore.CreateDirectRoom up to its first
\* statement, the lookup by direct_key, returns the room when there is one
PostDirectRoom(t, uid, userID) ==
  LET user1ID == Min(uid, userID)
      user2ID == IF uid <= userID THEN userID ELSE uid
      directKey == DirectKey(uid, userID)
      found == GetRoomByDirectKey(directKey)
  IN  /\ roomReq[t].pc = "idle"
      /\ IF uid = userID
         THEN /\ directReplies' = directReplies \cup {Reply(uid, userID, 400, 0)}
              /\ UNCHANGED roomReq
         ELSE IF found # {}
         THEN /\ directReplies' =
                   directReplies \cup {Reply(user1ID, user2ID, 200, CHOOSE i \in found : TRUE)}
              /\ UNCHANGED roomReq
         ELSE /\ roomReq' = [roomReq EXCEPT ![t] =
                               [pc |-> "insert", directKey |-> directKey,
                                user1ID |-> user1ID, user2ID |-> user2ID]]
              /\ UNCHANGED directReplies
      /\ UNCHANGED <<RoomOther, dbRooms, dbMembers>>

\* SQLiteStore.CreateDirectRoom from BeginTx to the end: the room named
\* dm-{user1ID}-{user2ID} and both memberships are inserted in one
\* transaction, which the UNIQUE constraint on rooms.name and the unique index
\* on rooms.direct_key make fail; GetRoomByID returns the committed row
CreateDirectRoom(t) ==
  LET q == roomReq[t]
      roomName == "dm-" \o ToString(q.user1ID) \o "-" \o ToString(q.user2ID)
      roomID == Len(dbRooms) + 1
      clash == \E i \in DOMAIN dbRooms :
                 dbRooms[i].name = roomName \/ dbRooms[i].directKey = q.directKey
  IN  /\ q.pc = "insert"
      /\ roomReq' = [roomReq EXCEPT ![t] = NoRequest]
      /\ IF clash
         THEN /\ directReplies' = directReplies \cup {Reply(q.user1ID, q.user2ID, 500, 0)}
              /\ UNCHANGED <<dbRooms, dbMembers>>
         ELSE /\ dbRooms' = Append(dbRooms, [name |-> roomName, type |-> "direct",
                                             directKey |-> q.directKey])
              /\ dbMembers' = dbMembers \cup {<<q.user1ID, roomID>>, <<q.user2ID, roomID>>}
              /\ directReplies' = directReplies \cup {Reply(q.user1ID, q.user2ID, 200, roomID)}
      /\ UNCHANGED RoomOther

\* a database without rooms
InitRooms == InitCore /\ cfg = NoLimitsConfig /\ dbRooms = <<>> /\ dbMembers = {}

NextRooms ==
  \/ \E name \in RoomNames : CreateRoom(name)
  \/ \E t \in RoomThreads : \E uid, userID \in RoomUsers : PostDirectRoom(t, uid, userID)
  \/ \E t \in RoomThreads : CreateDirectRoom(t)

SpecRooms == InitRooms /\ [][NextRooms]_vars

\* ------------------------------------------------- the store: messages
\* SQLiteStore.SaveMessage called on its own: a row of user 1 in the room
StoreSaveMessage(roomID) ==
  /\ Len(dbMessages) < MaxMessages
  /\ dbMessages' = SaveMessage(dbMessages, roomID, 1, clock)
  /\ UNCHANGED <<hubVars, clientVars, fwd, conn, pushed, readerVars, dbMembers, roomVars,
                 clock, callVars>>

\* SQLiteStore.ListMessages called with a limit and a beforeID, which is 0
\* for the nil pointer (ids start at 1)
StoreListMessages(roomID, limit, beforeID) ==
  /\ listed' = <<[roomID |-> roomID, limit |-> limit, beforeID |-> beforeID,
                  messages |-> ListMessages(dbMessages, roomID, limit, beforeID)]>>
  /\ UNCHANGED <<hubVars, clientVars, fwd, conn, pushed, readerVars, dbMessages, dbMembers,
                 dbRooms, roomReq, directReplies, clock, callVars>>

NextMessages ==
  \/ \E roomID \in {1, 2} : StoreSaveMessage(roomID)
  \/ \E roomID \in {1, 2} : \E limit \in 0..MaxLimit : \E beforeID \in 0..(MaxMessages + 1) :
       StoreListMessages(roomID, limit, beforeID)

SpecMessages == Init /\ [][NextMessages]_vars

\* ------------------------------------------------- the server: disconnects
\* connections are accepted, push a join and end; nothing cancels the server
NextDisconnect ==
  \/ Run
  \/ \E c \in Sessions : Accept(c)
  \/ \E c \in Sessions : Push(c, Command("join", "general", 0, ""))
  \/ \E c \in Sessions : ReaderExit(c)
  \/ \E c \in Sessions : FwdTake(c)
  \/ \E c \in Sessions : FwdPut(c)
  \/ \E c \in Sessions : Drain(c)

\* the Hub goroutine and the forwarders run whenever they can; the writer of
\* a connection takes the events of the outbox as long as the connection is
\* open
FairDisconnect ==
  /\ WF_vars(Run)
  /\ \A c \in Sessions : WF_vars(FwdTake(c) \/ FwdPut(c))
  /\ \A c \in Sessions : WF_vars(conn[c] = "open" /\ Drain(c))

SpecDisconnect == Init /\ [][NextDisconnect]_vars /\ FairDisconnect

\* ------------------------------------------------- the server: cancellation
\* writeLoop returns (closed outbox, write or ping error, ctx.Done) before
\* readLoop has: ServeHTTP takes its result off errCh, calls cancel() and
\* waits for the reader
WriterExit(c) ==
  /\ Alive
  /\ conn[c] = "open"
  /\ conn' = [conn EXCEPT ![c] = "cancelled"]
  /\ UNCHANGED <<hubVars, clientVars, fwd, pushed, readerVars, dbMessages, dbMembers,
                 roomVars, clock, callVars>>

\* readLoop, in wsjson.Read when the context is cancelled, returns; ServeHTTP
\* takes its result off errCh and runs its deferred UnregisterClient
ReaderAbort(c) ==
  /\ Alive
  /\ conn[c] = "cancelled"
  /\ pending[c] = <<>>
  /\ conn' = [conn EXCEPT ![c] = "closed"]
  /\ unregister' = IF Len(unregister) < RegisterCap THEN Append(unregister, c) ELSE unregister
  /\ UNCHANGED <<clients, rooms, userClients, register, commands, hubTodo, hubState,
                 ctxDone, clientVars, fwd, pushed, readerVars, dbMessages, dbMembers,
                 roomVars, clock, callVars>>

\* writeLoop: case event, ok := <-client.Events, while it runs
WriterTake(c) == conn[c] = "open" /\ Drain(c)

CancelFrames == {Frame("join", "general", 0, "", ""), Frame("leave", "lobby", 0, "", "")}

\* one connection whose writer may end first, under a server that may be
\* cancelled
NextCancel ==
  \/ Run
  \/ shutdown
  \/ Cancel
  \/ \E c \in WSSessions : Accept(c)
  \/ \E c \in WSSessions : \E f \in CancelFrames : ReadFrame(c, f, "none", "none")
  \/ \E c \in WSSessions : ReaderPush(c)
  \/ \E c \in WSSessions : ReaderExit(c)
  \/ \E c \in WSSessions : WriterExit(c)
  \/ \E c \in WSSessions : ReaderAbort(c)
  \/ \E c \in WSSessions : FwdTake(c)
  \/ \E c \in WSSessions : FwdPut(c)
  \/ \E c \in WSSessions : FwdDone(c)
  \/ \E c \in WSSessions : WriterTake(c)

\* the Hub, the forwarders, the reader and the running writer all run
\* whenever they can, and the Hub's select picks ctx.Done() if it stays ready
FairCancel ==
  /\ WF_vars(Run \/ shutdown)
  /\ SF_vars(shutdown)
  /\ \A c \in WSSessions : WF_vars(FwdTake(c) \/ FwdPut(c) \/ FwdDone(c))
  /\ \A c \in WSSessions : WF_vars(ReaderPush(c) \/ ReaderAbort(c))
  /\ \A c \in WSSessions : WF_vars(WriterTake(c))

SpecCancel == Init /\ [][NextCancel]_vars /\ FairCancel

\* ------------------------------------------------------------------ claims

\* C1: the Hub never blocks on a session's event outbox: it is never in the
\* middle of a handler waiting to send on an Events channel that is full.
C1_HubNeverBlocks ==
  ~(hubState = "run" /\ hubTodo # <<>> /\ Len(cEvents[Head(hubTodo).to]) >= EventsCap)

\* C2: for every session s and room name r, s is in the member set of the
\* in-memory room r if and only if r is in s.joined_rooms.
C2_MembersIffJoined ==
  \A s \in Sessions : \A r \in HubRooms \cup DbRoomNames \cup DOMAIN rooms :
    (r \in DOMAIN rooms /\ s \in rooms[r]) <=> r \in cRooms[s]

\* a session is in a room and holds the user_left of a member that has gone
C2_Witness ==
  \E s \in Sessions : \E r \in DOMAIN rooms :
    /\ rooms[r] = {s}
    /\ cEvents[s] # <<>>
    /\ Head(cEvents[s]).kind = "user_left"

\* C3: an in-memory room exists in the Hub's room map only with at least one
\* member, and every room a session has joined exists.
C3_RoomExistsIffMembers ==
  /\ \A r \in DOMAIN rooms : rooms[r] # {}
  /\ \A s \in Sessions : cRooms[s] \subseteq DOMAIN rooms

\* a room was created by a join and deleted again when its last member left
C3_Witness ==
  /\ DOMAIN rooms = {}
  /\ \E s \in Sessions :
       /\ cRooms[s] = {}
       /\ cEvents[s] # <<>>
       /\ Head(cEvents[s]).kind = "user_joined"

\* C4: every registered session with a user id above 0 is the entry of the
\* user index under that id, whether the id was set before registration or
\* by a hello handshake.
C4_UserIndexed ==
  \A s \in clients :
    cUserID[s] > 0 => (cUserID[s] \in DOMAIN userClients /\ userClients[cUserID[s]] = s)

\* the access rule of a join, restated from the room's type and the
\* membership table
Allowed(uid, r) ==
  /\ r \in DbRoomNames
  /\ \/ DbRoom(r).type = "public"
     \/ DbRoom(r).type \in {"private", "direct"} /\ <<uid, DbRoom(r).id>> \in dbMembers

C9_UnauthorizedBeforeHello ==
  \A s \in WSSessions :
    (last[s] # <<>> /\ cfg.jwtRequired /\ ~last[s][1].authed /\ last[s][1].type # "hello")
      => (last[s][1].code = "unauthorized" /\ ~last[s][1].forwarded)

\* C10: with a limit N > 0 a limited command is answered with rate_limited
\* exactly when more than N commands of its kind have been read since the
\* last reset; with a limit <= 0 none is.
C10_RateLimit ==
  \A s \in WSSessions :
    (last[s] # <<>> /\ last[s][1].type \in {"join", "msg"}) =>
      LET l == last[s][1] IN
        /\ l.limit > 0 => ((l.code = "rate_limited") <=> (l.seen > l.limit))
        /\ l.limit <= 0 => l.code # "rate_limited"
        /\ l.code = "rate_limited" => ~l.forwarded

\* C6: of two messages persisted in the same room, the one with the earlier
\* created_at has the smaller id.
C6_CreatedAtOrdersIds ==
  \A i, j \in 1..Len(dbMessages) :
    (dbMessages[i].room = dbMessages[j].room
       /\ dbMessages[i].createdAt < dbMessages[j].createdAt)
      => dbMessages[i].id < dbMessages[j].id

\* the Hub takes a msg command off h.commands
MsgStep ==
  commands # <<>> /\ commands' = Tail(commands) /\ Head(commands).cmd.kind = "msg"

\* the message events the step appends to the outboxes
NewMsgEvents ==
  {e \in UNION {{cEvents'[t][i] : i \in (Len(cEvents[t]) + 1)..Len(cEvents'[t])} :
                  t \in Sessions} : e.kind = "message"}

\* the ids persisted or still queued for a room before the step
PriorIds(roomName) ==
  {dbMessages[i].id : i \in {k \in 1..Len(dbMessages) :
                               roomName \in DbRoomNames
                                 /\ dbMessages[k].room = DbRoom(roomName).id}}
    \cup UNION {{cEvents[t][i].msg.id : i \in {k \in 1..Len(cEvents[t]) :
                                           cEvents[t][k].kind = "message"
                                             /\ cEvents[t][k].room = roomName}} :
                  t \in Sessions}

\* C7 as stated: a message of a guest is broadcast with id 0 and is not
\* persisted; a message of a non-guest in a room with a persisted counterpart
\* is broadcast with an id above 0 and above every id persisted or broadcast
\* for that room before.
C7_Original ==
  [][MsgStep =>
       LET c == Head(commands).client
           room == Head(commands).cmd.room
       IN  /\ cIsGuest[c] => (dbMessages' = dbMessages /\ \A e \in NewMsgEvents : e.msg.id = 0)
           /\ (~cIsGuest[c] /\ room \in DbRoomNames) =>
                \A e \in NewMsgEvents :
                  e.msg.id > 0 /\ \A p \in PriorIds(room) : e.msg.id > p]_vars

\* C7: a message of a guest or of a sender with user id 0 is broadcast with
\* id 0 and is not persisted; a message of a non-guest with a user id above 0
\* in a persisted room is broadcast, when the store finds the room and saves
\* the row, with the id of that row, which is above 0 and above every id
\* persisted or broadcast for that room before, and with id 0 otherwise.
C7_MessageIds ==
  [][MsgStep =>
       LET c == Head(commands).client
           room == Head(commands).cmd.room
           saved == dbMessages' # dbMessages
           row == dbMessages'[Len(dbMessages')]
       IN  /\ (cIsGuest[c] \/ cUserID[c] = 0) => ~saved
           /\ ~saved => \A e \in NewMsgEvents : e.msg.id = 0
           /\ saved =>
                /\ dbMessages' = Append(dbMessages, row)
                /\ room \in DbRoomNames
                /\ row.room = DbRoom(room).id /\ row.user = cUserID[c]
                /\ row.id > 0 /\ \A p \in PriorIds(room) : row.id > p
                /\ \A e \in NewMsgEvents : e.msg.id = row.id]_vars

\* the second message saved in a room sits in an outbox with the id of its row
C7_Witness ==
  /\ Len(dbMessages) = 2
  /\ dbMessages[1].room = dbMessages[2].room
  /\ \E t \in Sessions :
       cEvents[t] # <<>> /\ cEvents[t][1].kind = "message"
         /\ cEvents[t][1].msg.id = dbMessages[2].id

\* C5: the status of a call only moves forward: a call that is ended or
\* failed keeps its status and its ended_at is not cleared, and an active
\* call does not return to ringing.
C5_StatusMonotone ==
  [][\A id \in DOMAIN dbCalls :
       /\ id \in DOMAIN dbCalls'
       /\ dbCalls[id].status \in {"ended", "failed"} =>
            (dbCalls'[id].status = dbCalls[id].status /\ dbCalls'[id].endedAt # 0)
       /\ dbCalls[id].status = "active" => dbCalls'[id].status # "ringing"]_vars

\* the commands of a session that the Hub has not taken yet, oldest first:
\* those on h.commands, the one its forwarder holds, those on its inbox, the
\* one its reader is pushing
Pipeline(c) ==
  LET mine(x) == x.client = c
      queued == SelectSeq(commands, mine)
  IN  [i \in 1..Len(queued) |-> queued[i].cmd] \o fwd[c].cmd \o cCommands[c] \o pending[c]

TakesCommand == commands # <<>> /\ commands' = Tail(commands)

\* the events the step appends to the outbox of t
Appended(t) == SubSeq(cEvents'[t], Len(cEvents[t]) + 1, Len(cEvents'[t]))

\* C12: when a join makes its session a member of the room, every member the
\* room had and the joiner itself get a user_joined event with the room name
\* and the joiner's name queued, unless their outbox is full; no session
\* outside the room gets one.
C12_UserJoinedBroadcast ==
  [][(TakesCommand /\ Head(commands).cmd.kind = "join" /\ hubState' = "run") =>
       LET c == Head(commands).client
           r == Head(commands).cmd.room
           was == IF r \in DOMAIN rooms THEN rooms[r] ELSE {}
           ev == Event("user_joined", r, cName[c], "", NoMsg, <<>>)
       IN  (c \notin was /\ r \in DOMAIN rooms' /\ c \in rooms'[r]) =>
             /\ rooms'[r] = was \cup {c}
             /\ \A t \in was \cup {c} :
                  \/ Len(cEvents[t]) >= EventsCap
                  \/ Appended(t) # <<>> /\ Head(Appended(t)) = ev
             /\ \A t \in Sessions \ (was \cup {c}) : Appended(t) = <<>>]_vars

\* s2 has joined the room s1 was in, and s1 holds the user_joined of s2
C12_Witness ==
  /\ "general" \in DOMAIN rooms /\ rooms["general"] = {"s1", "s2"}
  /\ cEvents["s1"] # <<>>
  /\ Head(cEvents["s1"]) = Event("user_joined", "general", cName["s2"], "", NoMsg, <<>>)

\* C13: a message sent by a member of the room queues exactly one message
\* event, with the room name, the sender's name and the text, on the outbox
\* of every member of the room, the sender included, unless that outbox is
\* full, and nothing on the outbox of a session outside the room.
C13_MessageToMembers ==
  [][(MsgStep /\ hubState' = "run") =>
       LET c == Head(commands).client
           cmd == Head(commands).cmd
           r == cmd.room
       IN  (r \in DOMAIN rooms /\ c \in rooms[r] /\ r \in cRooms[c]) =>
             /\ \A t \in rooms[r] :
                  IF Len(cEvents[t]) >= EventsCap THEN Appended(t) = <<>>
                  ELSE /\ Len(Appended(t)) = 1
                       /\ Appended(t)[1].kind = "message"
                       /\ Appended(t)[1].room = r
                       /\ Appended(t)[1].msg.from = cName[c]
                       /\ Appended(t)[1].msg.text = cmd.msg.text
             /\ \A t \in Sessions \ rooms[r] : Appended(t) = <<>>
             /\ rooms' = rooms]_vars

\* both sessions are in the room and each holds the message the other sent
C13_Witness ==
  /\ "general" \in DOMAIN rooms /\ rooms["general"] = {"s1", "s2"}
  /\ \A t \in {"s1", "s2"} :
       /\ cEvents[t] # <<>>
       /\ Head(cEvents[t]).kind = "message" /\ Head(cEvents[t]).msg.text = "hi"
  /\ Head(cEvents["s1"]).msg.from = cName["s2"]
  /\ Head(cEvents["s2"]).msg.from = cName["s2"]
  /\ cName["s1"] # cName["s2"]

\* the step queues an error event on the outbox of t
ErrorQueued(t) == \E i \in 1..Len(Appended(t)) : Appended(t)[i].kind = "error"

\* the Error event the Hub is blocked sending after the step, if any
ErrorPending ==
  hubTodo' # <<>> /\ Head(hubTodo').op = "send" /\ Head(hubTodo').ev.kind = "error"

C15_DuplicateJoin ==
  [][(TakesCommand /\ Head(commands).cmd.kind = "join" /\ hubState' = "run") =>
       LET c == Head(commands).client
           r == Head(commands).cmd.room
           err == ErrorEvent(r, "already_joined")
       IN  (r \in DOMAIN rooms /\ c \in rooms[r]) =>
             /\ rooms' = rooms /\ cRooms' = cRooms
             /\ \A t \in Sessions \ {c} : cEvents'[t] = cEvents[t]
             /\ \/ Appended(c) = <<err>> /\ hubTodo' = <<>>
                \/ Appended(c) = <<>> /\ hubTodo' = <<Send(c, err)>>]_vars

\* s1, alone in the room, holds the already_joined error of its second join
C15_Witness ==
  /\ "general" \in DOMAIN rooms /\ rooms["general"] = {"s1"}
  /\ cRooms["s1"] = {"general"}
  /\ cEvents["s1"] = <<ErrorEvent("general", "already_joined")>>

\* C16: a message for a room the session has not joined is answered with a
\* not_in_room error on the sender's outbox (queued, or the Hub waits to
\* queue it); no other outbox changes, nothing is persisted and no room is
\* created.
C16_MessageWithoutJoin ==
  [][(MsgStep /\ hubState' = "run") =>
       LET c == Head(commands).client
           r == Head(commands).cmd.room
           err == ErrorEvent(r, "not_in_room")
       IN  (r # "" /\ r \notin cRooms[c]) =>
             /\ rooms' = rooms /\ cRooms' = cRooms /\ dbMessages' = dbMessages
             /\ \A t \in Sessions \ {c} : cEvents'[t] = cEvents[t]
             /\ \/ Appended(c) = <<err>> /\ hubTodo' = <<>>
                \/ Appended(c) = <<>> /\ hubTodo' = <<Send(c, err)>>]_vars

\* s1 sent to the room s2 is in without joining it: s1 holds the error, s2
\* holds nothing, nothing is stored
C16_Witness ==
  /\ "general" \in DOMAIN rooms /\ rooms["general"] = {"s2"}
  /\ cUserID["s1"] > 0 /\ ~cIsGuest["s1"]
  /\ cEvents["s1"] = <<ErrorEvent("general", "not_in_room")>>
  /\ cEvents["s2"] = <<>>
  /\ dbMessages = <<>>

\* C17: a leave naming a room that is not in h.rooms is answered with
\* room_not_found, a leave naming a room of which the session is not a
\* member with not_in_room; in both cases the rooms, their members and the
\* joined sets are unchanged and no other outbox receives anything (so no
\* user_left is broadcast).
C17_LeaveErrors ==
  [][(TakesCommand /\ Head(commands).cmd.kind = "leave" /\ hubState' = "run") =>
       LET c == Head(commands).client
           r == Head(commands).cmd.room
           code == IF r \notin DOMAIN rooms THEN "room_not_found" ELSE "not_in_room"
           err == ErrorEvent(r, code)
       IN  (r \notin DOMAIN rooms \/ c \notin rooms[r]) =>
             /\ rooms' = rooms /\ cRooms' = cRooms
             /\ \A t \in Sessions \ {c} : cEvents'[t] = cEvents[t]
             /\ \/ Appended(c) = <<err>> /\ hubTodo' = <<>>
                \/ Appended(c) = <<>> /\ hubTodo' = <<Send(c, err)>>]_vars

\* s1 left a room nobody is in while s2 is in another: s1 holds
\* room_not_found and s2's room is as it was
C17_Witness ==
  /\ DOMAIN rooms = {"general"} /\ rooms["general"] = {"s2"}
  /\ cEvents["s1"] = <<ErrorEvent("lobby", "room_not_found")>>

\* the Hub takes a call.invite of the given call type and creates a call
InviteStep(callType) ==
  /\ TakesCommand
  /\ Head(commands).cmd.kind = "call.invite"
  /\ Head(commands).cmd.call.callType = callType
  /\ hubState' = "run"
  /\ DOMAIN dbCalls' # DOMAIN dbCalls
\* the id of the call the step creates
NewCall == CHOOSE id \in DOMAIN dbCalls' : id \notin DOMAIN dbCalls
\* the step queues a call event of this kind and call on the outbox of t
Delivered(t, kind, id) ==
  \E i \in 1..Len(Appended(t)) :
    Appended(t)[i].kind = kind /\ Appended(t)[i].call.callID = id
\* the step leaves the Hub with the blocking send of such an event to t ahead
SendAhead(t, kind, id) ==
  \E i \in 1..Len(hubTodo') :
    /\ hubTodo'[i].op = "send" /\ hubTodo'[i].to = t
    /\ hubTodo'[i].ev.kind = kind /\ hubTodo'[i].ev.call.callID = id
\* the step leaves the Hub with the routing of such an event to a user ahead
RouteAhead(userID, kind, id) ==
  \E i \in 1..Len(hubTodo') :
    /\ hubTodo'[i].op = "touser" /\ hubTodo'[i].user = userID
    /\ hubTodo'[i].ev.kind = kind /\ hubTodo'[i].ev.call.callID = id
\* a registered, connected session of an authenticated user
SessionOf(t, userID) ==
  /\ t \in clients /\ conn[t] = "open" /\ ~cClosed[t]
  /\ cUserID[t] = userID /\ userID > 0 /\ ~cIsGuest[t]

\* C18: when the Hub creates a direct call for an invite of session A to user
\* B, call.ringing for the new call is queued on A's outbox (or the Hub waits
\* to queue it), and call.incoming for the same call is queued on the outbox
\* of every connected session of B that completed its hello and has room (or
\* its routing is still ahead of the Hub).
C18_DirectInvite ==
  [][InviteStep("direct") =>
       LET c == Head(commands).client
           to == Head(commands).cmd.call.toUserID
       IN  /\ Delivered(c, "call.ringing", NewCall) \/ SendAhead(c, "call.ringing", NewCall)
           /\ \A t \in Sessions :
                (SessionOf(t, to) /\ authenticated[t] /\ Len(cEvents[t]) < EventsCap) =>
                   \/ Delivered(t, "call.incoming", NewCall)
                   \/ RouteAhead(to, "call.incoming", NewCall)]_vars

\* the session the Hub routes the events of a user to
Routed(t, userID) ==
  SessionOf(t, userID) /\ userID \in DOMAIN userClients /\ userClients[userID] = t

\* C19: when the Hub creates a room call for an invite, call.incoming for
\* the new call is queued on the outbox of every other recorded member of
\* the room whose session the Hub routes to and has room, and call.ringing
\* for it is queued on the initiator's outbox (or the Hub waits to queue it).
C19_RoomInvite ==
  [][InviteStep("room") =>
       LET c == Head(commands).client
           roomID == Head(commands).cmd.call.roomID
       IN  /\ \A t \in Sessions \ {c} : \A u \in CallUsers \ {cUserID[c]} :
                (<<u, roomID>> \in dbMembers /\ Routed(t, u)
                   /\ Len(cEvents[t]) < EventsCap) =>
                  Delivered(t, "call.incoming", NewCall)
           /\ Delivered(c, "call.ringing", NewCall) \/ SendAhead(c, "call.ringing", NewCall)]_vars

\* C20: when the Hub ends a call for a call.end of one of its participants,
\* the initiator included, call.ended for that call is queued on the outbox
\* of every other participant whose session the Hub routes to and has room.
C20_EndNotifiesOthers ==
  [][(TakesCommand /\ Head(commands).cmd.kind = "call.end" /\ hubState' = "run") =>
       LET c == Head(commands).client
           id == Head(commands).cmd.call.callID
       IN  (/\ id \in DOMAIN dbCalls /\ dbCalls[id].status # "ended"
            /\ dbCalls'[id].status = "ended"
            /\ \E p \in dbParticipants : p.call = id /\ p.user = cUserID[c]) =>
             \A t \in Sessions \ {c} : \A p \in dbParticipants :
               (p.call = id /\ p.user # cUserID[c] /\ Routed(t, p.user)
                  /\ Len(cEvents[t]) < EventsCap) =>
                 Delivered(t, "call.ended", id)]_vars

\* C21: a Service.EndCall that ends a call leaves it with status ended and
\* ended_at set; an EndCall that starts after a call was ended returns once
\* it has read the call: it does not go on to the update, so it changes
\* neither status nor ended_at.
C21_EndCallIdempotent ==
  [][\A t \in Threads :
       /\ (svc[t].pc = "end" /\ svc'[t].pc = "idle" /\ svc[t].id \in endedCalls') =>
            /\ dbCalls'[svc[t].id].status = "ended"
            /\ dbCalls'[svc[t].id].endedAt # 0
       /\ (svc[t].pc = "idle" /\ svc'[t].pc = "end") =>
            /\ svc'[t].id \notin endedCalls
            /\ dbCalls' = dbCalls]_vars

\* C22: in a Hub without a call service, every call command is answered with
\* a calls_disabled error on the issuer's outbox (queued, or the Hub waits to
\* queue it); no other outbox changes, and neither the rooms, the sessions,
\* the user index nor the stored calls, participants and messages change.
C22_CallsDisabled ==
  [][(TakesCommand /\ Head(commands).cmd.kind \in CallKinds /\ ~cfg.calls) =>
       LET c == Head(commands).client
           err == ErrorEvent("", "calls_disabled")
       IN  /\ hubState' = "run"
           /\ \A t \in Sessions \ {c} : cEvents'[t] = cEvents[t]
           /\ \/ Appended(c) = <<err>> /\ hubTodo' = <<>>
              \/ Appended(c) = <<>> /\ hubTodo' = <<Send(c, err)>>
           /\ UNCHANGED <<rooms, cRooms, clients, userClients, cClosed, dbCalls,
                          dbParticipants, dbMessages, dbMembers>>]_vars

\* an authenticated session holds the error of its call command while the
\* other session is in a room and holds nothing
C22_Witness ==
  /\ ~cfg.calls
  /\ "general" \in DOMAIN rooms /\ rooms["general"] = {"s2"}
  /\ cUserID["s1"] > 0 /\ ~cIsGuest["s1"]
  /\ cEvents["s1"] = <<ErrorEvent("", "calls_disabled")>>
  /\ cEvents["s2"] = <<>>

\* C23: once the context is cancelled, the Hub stops and the event outbox of
\* every session in its session set is closed (unless the process has
\* crashed), whatever is still queued on register, unregister and commands.
C23_ShutdownCloses ==
  ctxDone ~> \/ hubState = "panic"
             \/ hubState = "stopped" /\ \A c \in clients : cClosed[c]

\* the Hub takes the unregister of a session and runs removeClient to its end
UnregisterStep ==
  /\ AtSelect /\ unregister # <<>> /\ unregister' = Tail(unregister)
  /\ hubState' = "run"
\* what the claim says of the session c whose unregister the step processes
Removed(c) ==
  /\ hubTodo' = <<>>
  /\ c \notin clients'
  /\ cClosed'[c]
  /\ cRooms'[c] = {}
  /\ \A r \in DOMAIN rooms' : c \notin rooms'[r]
  /\ \A r \in cRooms[c] :
       LET rest == rooms[r] \ {c} IN
       IF rest = {} THEN r \notin DOMAIN rooms'
       ELSE /\ r \in DOMAIN rooms' /\ rooms'[r] = rest
            /\ \A t \in rest :
                 \/ Len(cEvents[t]) >= EventsCap
                 \/ \E i \in 1..Len(Appended(t)) :
                      Appended(t)[i] = Event("user_left", r, cName[c], "", NoMsg, <<>>)

\* C24: when the Hub has processed the unregister of a session, the session
\* is out of the session set, its outbox is closed, it has no joined rooms
\* and is in no room; every room it was in has lost it, has announced
\* user_left to the members that remain (those with room in their outbox)
\* and is deleted if nobody remains.
C24_UnregisterRemoves ==
  [][UnregisterStep => Removed(Head(unregister))]_vars

\* the frame that the step of readLoop, if this step is one, has just read
ReadsFrame(c) == frames' = frames + 1 /\ last'[c] # <<>>

\* a hello that the server accepts: a supported (or absent) version, and a
\* valid token or, where tokens are optional, any token or none
ValidHello(f) ==
  /\ f.type = "hello"
  /\ f.protocol \in {0, ProtocolVersion}
  /\ ValidateToken(f.token) # <<>> \/ ~cfg.jwtRequired

GuestHello(f) ==
  /\ f.type = "hello"
  /\ f.protocol \in {0, ProtocolVersion}
  /\ ~cfg.jwtRequired
  /\ ValidateToken(f.token) = <<>>

\* C26: after a hello that resolves to guest mode the session is a guest
\* with user id 0, whatever an earlier hello had made of it.
C26_GuestIdentity ==
  [][\A c \in WSSessions : (ReadsFrame(c) /\ GuestHello(last'[c][1].frame)) =>
       cIsGuest'[c] /\ cUserID'[c] = 0]_vars

\* C27: every request for a direct room of two distinct users, whichever of
\* the two makes it and however often, is answered with the id of the one
\* direct room row that carries the pair's key, and both users are members
\* of that room.
C27_DirectRoomConverges ==
  \A r \in directReplies : r.user1ID # r.user2ID =>
    /\ r.status = 200
    /\ GetRoomByDirectKey(DirectKey(r.user1ID, r.user2ID)) = {r.id}
    /\ dbRooms[r.id].type = "direct"
    /\ <<r.user1ID, r.id>> \in dbMembers /\ <<r.user2ID, r.id>> \in dbMembers
    /\ \A r2 \in directReplies :
         (r2.user1ID = r.user1ID /\ r2.user2ID = r.user2ID) => r2.id = r.id

\* C28: a ListMessages call returns rows of the room with an id below
\* beforeID (any id when there is no beforeID), at most limit of them, in
\* strictly ascending order of id, and every row of the room below beforeID
\* that it leaves out has a smaller id than all it returns, which then are
\* exactly limit rows.
C28_ListMessages ==
  [][listed' # listed =>
       LET q == listed'[1]
           res == q.messages
           cand == {k \in 1..Len(dbMessages) :
                      /\ dbMessages[k].room = q.roomID
                      /\ q.beforeID = 0 \/ dbMessages[k].id < q.beforeID}
           out == {k \in cand : \A i \in 1..Len(res) : res[i] # dbMessages[k]}
       IN  /\ Len(res) <= q.limit
           /\ \A i \in 1..Len(res) : \E k \in cand : res[i] = dbMessages[k]
           /\ \A i, j \in 1..Len(res) : i < j => res[i].id < res[j].id
           /\ \A k \in out :
                 /\ Len(res) = q.limit
                 /\ \A i \in 1..Len(res) : dbMessages[k].id < res[i].id]_vars

\* a page of two rows below id 4 of a room that has three such rows
C28_Witness ==
  /\ Len(dbMessages) = 4
  /\ \A k \in 1..3 : dbMessages[k].room = 1
  /\ listed # <<>>
  /\ listed[1].roomID = 1 /\ listed[1].limit = 2 /\ listed[1].beforeID = 4
  /\ listed[1].messages = <<dbMessages[2], dbMessages[3]>>

\* the Hub is handling a command or an unregister, or goes on with one: the
\* steps in which it sends events
HandlerStep == commands' # commands \/ unregister' # unregister \/ hubTodo # <<>>

\* C29: the Hub never sends on an outbox that is closed: no step in which
\* it handles a command or an unregister, or resumes a handler, ends in the
\* panic of a send on a closed channel.
C29_NoSendOnClosed ==
  [][~(HandlerStep /\ hubState = "run" /\ hubState' = "panic")]_vars

\* C30: every member of every in-memory room is in the Hub's session set.
C30_MembersRegistered ==
  \A r \in DOMAIN rooms : rooms[r] \subseteq clients

\* the Hub has removed the session: it is in no room and not in the session
\* set, and its outbox is closed
Destroyed(c) ==
  /\ c \notin clients
  /\ \A r \in DOMAIN rooms : c \notin rooms[r]
  /\ cClosed[c]

\* C31: once the loops of a connection have ended, the Hub eventually has
\* removed its session from the session set and from every room and closed
\* its outbox (unless the Hub has panicked), however many connections end
\* together.
C31_EventuallyDestroyed ==
  \A c \in Sessions : (conn[c] = "closed") ~> (hubState = "panic" \/ Destroyed(c))

\* C32: a reader that is pushing a command onto the inbox gets it pushed or
\* gives up, and once the connection's context is cancelled the reader ends
\* and the handler unregisters the session (unless the Hub has panicked).
C32_ReaderTerminates ==
  \A c \in WSSessions :
    /\ (pending[c] # <<>>) ~> (pending[c] = <<>> \/ hubState = "panic")
    /\ (conn[c] = "cancelled") ~> (conn[c] = "closed" \/ hubState = "panic")

\* C33: once the context is cancelled every forwarder that was started
\* eventually has returned, also one that holds a command for the Hub's
\* command channel (unless the Hub has panicked).
C33_ForwardersTerminate ==
  ctxDone ~> (hubState = "panic" \/ \A c \in Sessions : fwd[c].st \in {"none", "exit"})

\* C34: while a session is a member of a room its name, user id and guest
\* flag do not change.
C34_IdentityFrozen ==
  [][\A c \in Sessions : cRooms[c] # {} =>
       /\ cName'[c] = cName[c]
       /\ cUserID'[c] = cUserID[c]
       /\ cIsGuest'[c] = cIsGuest[c]]_vars

\* C35: a frame the reader answers with a protocol error puts an error event
\* with that code at the end of the session's outbox, and the connection
\* stays open.
C35_ErrorsThroughOutbox ==
  [][\A c \in WSSessions : (ReadsFrame(c) /\ last'[c][1].code # "") =>
       /\ Len(cEvents'[c]) = Len(cEvents[c]) + 1
       /\ cEvents'[c][Len(cEvents'[c])].kind = "error"
       /\ cEvents'[c][Len(cEvents'[c])].code = last'[c][1].code
       /\ conn'[c] = "open"]_vars

\* C36: every entry of the user index points to a session that is in the
\* session set, has an open outbox and has the entry's user id; and the
\* unregister of a session leaves the entries that point to other sessions
\* as they are.
C36_UserIndexSound ==
  [][/\ \A u \in DOMAIN userClients' :
          LET s == userClients'[u] IN
          s \in clients' /\ ~cClosed'[s] /\ cUserID'[s] = u
     /\ UnregisterStep =>
          \A u \in DOMAIN userClients :
            userClients[u] # Head(unregister) =>
              u \in DOMAIN userClients' /\ userClients'[u] = userClients[u]]_vars

\* ------------------------------------------- the server: gated room joins
\* RoomHandlers.LeaveRoom: the authenticated user leaves the persisted room
\* (store.RemoveMember deletes the room_members row, if there is one)
RoomHandlersLeaveRoom(uid, rid) ==
  /\ Alive
  /\ <<uid, rid>> \in dbMembers
  /\ dbMembers' = dbMembers \ {<<uid, rid>>}
  /\ UNCHANGED <<hubVars, clientVars, fwd, conn, pushed, readerVars, dbMessages,
                 roomVars, clock, callVars>>

\* the frames of a connection that authenticates, possibly twice, and joins
\* the private and the direct room
MemberFrames ==
  {Hello(0, "tok1", ""), Hello(0, "tok2", ""),
   Frame("join", "secret", 0, "", ""), Frame("join", "dm", 0, "", "")}

\* one connection joining gated rooms while members leave them over REST
NextMembers ==
  \/ Run
  \/ \E c \in WSSessions : Accept(c)
  \/ \E c \in WSSessions : \E f \in MemberFrames : ReadFrame(c, f, "none", "none")
  \/ \E c \in WSSessions : ReaderPush(c)
  \/ \E c \in WSSessions : ReaderExit(c)
  \/ \E c \in WSSessions : FwdTake(c)
  \/ \E c \in WSSessions : FwdPut(c)
  \/ \E c \in WSSessions : Drain(c)
  \/ \E uid \in {1, 2} : \E rid \in {2, 3} : RoomHandlersLeaveRoom(uid, rid)

SpecMembers == Init /\ [][NextMembers]_vars

\* C37: when the Hub adds a session to a private or direct room, the user of
\* the session is at that moment a recorded member of the persisted room.
C37_JoinedAreMembers ==
  [][(TakesCommand /\ Head(commands).cmd.kind = "join") =>
       LET c == Head(commands).client
           r == Head(commands).cmd.room
           was == IF r \in DOMAIN rooms THEN rooms[r] ELSE {}
       IN  (/\ r \in DbRoomNames
            /\ DbRoom(r).type \in {"private", "direct"}
            /\ c \notin was
            /\ r \in DOMAIN rooms' /\ c \in rooms'[r]) =>
             <<cUserID[c], DbRoom(r).id>> \in dbMembers]_vars

\* ------------------------------------- the REST surface: direct rooms only
\* requests for direct rooms on two handler goroutines, and no other writer
\* of the rooms table
NextDirect ==
  \/ \E t \in RoomThreads : \E uid, userID \in RoomUsers : PostDirectRoom(t, uid, userID)
  \/ \E t \in RoomThreads : CreateDirectRoom(t)

SpecDirect == InitRooms /\ [][NextDirect]_vars

\* the pairs of users a direct room row is the room of
PairsOf(i) ==
  {p \in RoomUsers \X RoomUsers : p[1] < p[2] /\ DirectKey(p[1], p[2]) = dbRooms[i].directKey}

\* C38: CreateDirectRoom calls for one pair, concurrent or not, all succeed
\* and return the same room, and no direct room row is ever visible without
\* the memberships of both users of its pair.
C38_CreateDirectRoomAtomic ==
  /\ \A r \in directReplies : r.user1ID # r.user2ID => r.status = 200
  /\ \A r1, r2 \in directReplies :
       (r1.user1ID = r2.user1ID /\ r1.user2ID = r2.user2ID) => r1.id = r2.id
  /\ \A i \in DOMAIN dbRooms : dbRooms[i].type = "direct" =>
       /\ PairsOf(i) # {}
       /\ \A p \in PairsOf(i) : <<p[1], i>> \in dbMembers /\ <<p[2], i>> \in dbMembers

\* ------------------------------------------- the Hub API: repeated unregister
\* coreHub.UnregisterClient called once more for a session that was
\* unregistered before (consumeCommands on a closed inbox, or any other caller
\* of the Hub interface): the same non-blocking send on h.unregister
UnregisterRepeat(c) ==
  /\ Alive
  /\ conn[c] = "closed"
  /\ unregister' = IF Len(unregister) < RegisterCap THEN Append(unregister, c) ELSE unregister
  /\ UNCHANGED <<clients, rooms, userClients, register, commands, hubTodo, hubState,
                 ctxDone, clientVars, fwd, conn, pushed, dbMessages, clock, readerVars,
                 dbMembers, roomVars, callVars>>

CloseCommands == {Command("join", "general", 0, "")}

\* sessions that come, join a room, are unregistered any number of times,
\* and the context of Run is cancelled
NextClose ==
  \/ Run
  \/ shutdown
  \/ Cancel
  \/ \E c \in Sessions : RegisterClient(c, [uid |-> 0, guest |-> FALSE])
  \/ \E c \in Sessions : UnregisterClient(c)
  \/ \E c \in Sessions : UnregisterRepeat(c)
  \/ \E c \in Sessions : \E cmd \in CloseCommands : Push(c, cmd)
  \/ \E c \in Sessions : FwdTake(c)
  \/ \E c \in Sessions : FwdPut(c)
  \/ \E c \in Sessions : FwdDone(c)
  \/ \E c \in Sessions : Drain(c)

SpecClose == Init /\ [][NextClose]_vars

\* the Hub takes an unregister request off h.unregister
TakesUnregister == AtSelect /\ unregister # <<>> /\ unregister' = Tail(unregister)
\* the Hub, blocked in a send of removeClient for c, runs on
ResumesRemoval(c) ==
  /\ hubState = "run" /\ hubTodo # <<>> /\ hubTodo' # hubTodo
  /\ hubTodo[Len(hubTodo)] = [op |-> "finish", c |-> c]
\* Run takes ctx.Done() and calls shutdown
ShutdownStep ==
  /\ AtSelect /\ ctxDone /\ hubState' \in {"stopped", "panic"}
  /\ UNCHANGED <<register, unregister, commands>>

\* C39: the outbox of a session is closed at most once: a closed outbox stays
\* closed, and no unregister request for the session, first or repeated, and
\* no shutdown runs close on an outbox that is closed already (which would
\* crash the Hub).
C39_ClosedOnce ==
  [][\A c \in Sessions :
       /\ cClosed[c] => cClosed'[c]
       /\ ( /\ cClosed[c]
            /\ \/ TakesUnregister /\ Head(unregister) = c
               \/ ResumesRemoval(c)
               \/ ShutdownStep /\ c \in clients ) => hubState' # "panic"
       /\ (ShutdownStep /\ c \in clients) => ~cClosed[c] /\ cClosed'[c]
       /\ (~cClosed[c] /\ cClosed'[c]) =>
            \/ ShutdownStep /\ c \in clients
            \/ c \in clients /\ c \notin clients']_vars
\* a session the Hub removed, its outbox closed, with a repeated unregister
\* request queued and the cancellation pending
C39_Witness ==
  /\ AtSelect /\ ctxDone
  /\ cClosed["s1"] /\ "s1" \notin clients
  /\ unregister = <<"s1">>
  /\ "s2" \in clients /\ ~cClosed["s2"]

\* C40: once the Hub has removed a session (out of the session set, outbox
\* closed), the session's command forwarder eventually exits, with no
\* cancellation of the server's context (or the Hub has crashed).
C40_ForwarderExits ==
  \A c \in Sessions :
    (c \notin clients /\ cClosed[c] /\ fwd[c].st # "none")
      ~> (hubState = "panic" \/ fwd[c].st = "exit")

====
